---- MODULE Spec2Model ----
(***************************************************************************)
(* exisort: the import pipeline (Run, importOne, isFileIdentical,          *)
(* handleDuplicate, performTransfer/transferFile, copyFile) over a small   *)
(* file system.  Two revisions of the pipeline are in the repository       *)
(* (src/import.go and src/unnamed/part_001); the variable rev says which   *)
(* one a behaviour runs.                                                   *)
(***************************************************************************)
EXTENDS Integers, Sequences, FiniteSets, TLC

(* ------------------------------ bounds --------------------------------- *)
\* bytes of the header that are fingerprinted and compared (64*1024 in the code)
HeadLen == 1
\* largest file size, in bytes
MaxSize == 2
\* modulus of the model's fingerprint (2^64 in the code)
FpMod == 7
\* capacity of the jobs channel (100 in the code)
QueueCap == 2
\* how many times main is started over the same trees
MaxRuns == 2
\* how many of the leading paths of a conflict chain may be occupied initially
MaxPre == 2

(* ----------------------------- revisions ------------------------------- *)
RevA == "import.go"
RevB == "part_001"
Revs == {RevA, RevB}

(* ------------------------------- paths --------------------------------- *)
\* A path is [dir, stem, ext]; its text is dir/stem.ext.
Path(d, s, e) == [dir |-> d, stem |-> s, ext |-> e]

\* filepath.Ext(path)
Ext(p) == p.ext

\* strings.TrimSuffix(path, ext)
TrimSuffix(p) == [dir |-> p.dir, stem |-> p.stem]

\* filepath.Dir(path)
Dir(p) == p.dir

HexDigits == <<"0","1","2","3","4","5","6","7","8","9","a","b","c","d","e","f">>

RECURSIVE HexStr(_)
\* the hexadecimal digits of v, most significant first, no padding
HexStr(v) == IF v < 16 THEN HexDigits[v + 1]
             ELSE HexStr(v \div 16) \o HexDigits[(v % 16) + 1]

RECURSIVE HexLen(_)
HexLen(v) == IF v < 16 THEN 1 ELSE 1 + HexLen(v \div 16)

RECURSIVE Zeros(_)
Zeros(k) == IF k <= 0 THEN "" ELSE "0" \o Zeros(k - 1)

\* fmt verb %0Wx applied to an unsigned integer
FmtHex(v, width) == Zeros(width - HexLen(v)) \o HexStr(v)

\* fmt verb %s applied to a uint64: fmt reports the wrong verb in the output
FmtBadVerbS(v) == "%!s(uint64=" \o ToString(v) \o ")"

\* fmt verb %d
FmtDec(n) == ToString(n)

(* ------------------------------ contents ------------------------------- *)
\* the body of the first source file, and the bodies that differ from it in
\* the last byte, in the first byte, and in length
Ref == [i \in 1..MaxSize |-> 1]
TailVariant == [Ref EXCEPT ![MaxSize] = 2]
HeadVariant == [Ref EXCEPT ![1] = 2]
Short == SubSeq(Ref, 1, MaxSize - 1)
Contents == {Ref, TailVariant, HeadVariant, Short}

Min(a, b) == IF a < b THEN a ELSE b

\* io.ReadFull(f, make([]byte, 64*1024)): the first min(64 KiB, size) bytes
ReadHead(data) == SubSeq(data, 1, Min(HeadLen, Len(data)))

RECURSIVE crcUpdate(_, _)
\* a checksum folded over the bytes in order (stands for the CRC-64 update)
crcUpdate(crc, bs) == IF bs = <<>> THEN crc
                      ELSE crcUpdate((crc * 3 + Head(bs)) % FpMod, Tail(bs))

\* computeFingerprint: checksum of the header followed by the file size
computeFingerprint(header, size) == crcUpdate(crcUpdate(0, header), <<size>>)

\* computeFullHash: SHA-256 of the whole body, taken as collision free
computeFullHash(data) == <<"sha256", data>>

(* ---------------------------- file system ------------------------------- *)
\* A world is [fs, dirs, stats, log, sys]: fs maps each existing file path to
\* [data, date]; dirs is the set of existing directories; sys lists the
\* mutating system calls of the importOne call in progress, with their results.
NoPath == Path("", "", "")

Exists(fs, p) == p \in DOMAIN fs

\* the function f without the argument p
Without(f, p) == [q \in (DOMAIN f) \ {p} |-> f[q]]

\* the function f with f[p] = v, p added when it is new
With(f, p, v) == [q \in (DOMAIN f) \cup {p} |-> IF q = p THEN v ELSE f[q]]

\* faults the operating system may answer a call with during one importOne
CopyFaults == {"ok", "open", "create", "partial"}
IOs == {io \in [mkdir : BOOLEAN, rename : BOOLEAN, copy : CopyFaults,
                cut : 0..(MaxSize - 1), remove : BOOLEAN] :
            io.copy # "partial" => io.cut = 0}
NoFault == [mkdir |-> TRUE, rename |-> TRUE, copy |-> "ok", cut |-> 0, remove |-> TRUE]

\* os.Remove(path): [fs, err]
osRemove(fs, p, io) ==
    IF Exists(fs, p) /\ io.remove THEN [fs |-> Without(fs, p), err |-> FALSE]
    ELSE [fs |-> fs, err |-> TRUE]

\* os.Rename(src, dst): [fs, err]
osRename(fs, src, dst, io) ==
    IF Exists(fs, src) /\ io.rename
    THEN [fs |-> IF src = dst THEN fs ELSE Without(With(fs, dst, fs[src]), src),
          err |-> FALSE]
    ELSE [fs |-> fs, err |-> TRUE]

\* copyFile(src, dst): os.Open, os.Create (truncating), io.Copy: [fs, err]
copyFile(fs, src, dst, io) ==
    IF ~Exists(fs, src) \/ io.copy = "open" THEN [fs |-> fs, err |-> TRUE]
    ELSE IF io.copy = "create" THEN [fs |-> fs, err |-> TRUE]
    ELSE IF src = dst
         THEN \* the file is truncated by os.Create before anything is read
              [fs |-> With(fs, dst, [data |-> <<>>, date |-> fs[src].date]),
               err |-> io.copy = "partial"]
    ELSE IF io.copy = "partial"
         THEN [fs |-> With(fs, dst,
                        [data |-> SubSeq(fs[src].data, 1,
                                         Min(io.cut, Len(fs[src].data) - 1)),
                         date |-> fs[src].date]),
               err |-> TRUE]
    ELSE [fs |-> With(fs, dst, fs[src]), err |-> FALSE]

Last(q) == q[Len(q)]

\* the world after a system call: its file system, and the call on record
Sys(W, op, path, res) ==
    [W EXCEPT !.fs = res.fs,
              !.sys = Append(@, [op |-> op, path |-> path, err |-> res.err])]

(* ------------------------------ statistics ----------------------------- *)
ZeroStats == [FilesScanned |-> 0, FilesProcessed |-> 0, Duplicates |-> 0,
              Errors |-> 0, BytesMoved |-> 0]
\* IncScanned that counts nothing
IncScannedNoop(s) == s
IncScanned(s) == [s EXCEPT !.FilesScanned = @ + 1]
IncProcessed(s) == [s EXCEPT !.FilesProcessed = @ + 1]
IncDuplicate(s) == [s EXCEPT !.Duplicates = @ + 1]
IncError(s) == [s EXCEPT !.Errors = @ + 1]
AddBytes(s, n) == [s EXCEPT !.BytesMoved = @ + n]

(* -------------------------------- logger ------------------------------- *)
LogTransfer(W, src, dst) ==
    [W EXCEPT !.log = Append(@, [kind |-> "Transfer", src |-> src, dst |-> dst])]
LogDuplicate(W, src) ==
    [W EXCEPT !.log = Append(@, [kind |-> "Duplicate", src |-> src, dst |-> NoPath])]
LogError(W, src, dst) ==
    [W EXCEPT !.log = Append(@, [kind |-> "Error", src |-> src, dst |-> dst])]

(* --------------------------- identity check ---------------------------- *)
\* areHeadersIdentical(destPath, sourceHead)
areHeadersIdentical(fs, destPath, sourceHead) ==
    IF ~Exists(fs, destPath) THEN FALSE
    ELSE LET n == Min(Len(sourceHead), Len(fs[destPath].data))
             destHead == SubSeq(fs[destPath].data, 1, n)
         IN  n = Len(sourceHead) /\ destHead = sourceHead

\* areFilesDeepIdentical(src, dst): a file that cannot be opened gives false
areFilesDeepIdentical(fs, src, dst) ==
    IF ~Exists(fs, src) \/ ~Exists(fs, dst) THEN FALSE
    ELSE computeFullHash(fs[src].data) = computeFullHash(fs[dst].data)

\* isFileIdentical with the full hashes compared under the -deep flag only
isFileIdenticalDeepFlagOnly(c, fs, job, existingPath) ==
    IF ~Exists(fs, existingPath) THEN FALSE
    ELSE IF Len(fs[existingPath].data) # job.Size THEN FALSE
    ELSE IF ~areHeadersIdentical(fs, existingPath, job.SourceHead) THEN FALSE
    ELSE IF c.DeepCheck
         THEN areFilesDeepIdentical(fs, job.Path, existingPath)
    ELSE TRUE

\* isFileIdentical(job, existingPath)
isFileIdentical(c, fs, job, existingPath) ==
    IF ~Exists(fs, existingPath) THEN FALSE
    ELSE IF Len(fs[existingPath].data) # job.Size THEN FALSE
    ELSE IF ~areHeadersIdentical(fs, existingPath, job.SourceHead) THEN FALSE
    ELSE IF c.DeepCheck \/ c.Move
         THEN areFilesDeepIdentical(fs, job.Path, existingPath)
    ELSE TRUE

(* ------------------------- duplicate and transfer ---------------------- *)
\* handleDuplicate with the source removed in copy mode too
handleDuplicateNoMoveTest(c, W, job, io) ==
    LET W1 == [W EXCEPT !.stats = IncDuplicate(@)]
    IN  IF c.DryRun THEN LogDuplicate(W1, job.Path)
        ELSE LET W2 == Sys(W1, "remove", job.Path, osRemove(W1.fs, job.Path, io))
             IN  IF Last(W2.sys).err THEN LogError(W2, job.Path, NoPath)
                 ELSE LogDuplicate(W2, job.Path)

\* handleDuplicate(job)
handleDuplicate(c, W, job, io) ==
    LET W1 == [W EXCEPT !.stats = IncDuplicate(@)]
    IN  IF c.DryRun THEN LogDuplicate(W1, job.Path)
        ELSE IF c.Move
             THEN LET W2 == Sys(W1, "remove", job.Path, osRemove(W1.fs, job.Path, io))
                  IN  IF Last(W2.sys).err THEN LogError(W2, job.Path, NoPath)
                      ELSE LogDuplicate(W2, job.Path)
        ELSE LogDuplicate(W1, job.Path)

\* moveOrCopy with the source removed whether or not the copy succeeded
moveOrCopyRemoveAnyway(c, W, job, destPath, io) ==
    IF c.Move
    THEN LET W1 == Sys(W, "rename", destPath, osRename(W.fs, job.Path, destPath, io))
         IN  IF ~Last(W1.sys).err THEN [W |-> W1, err |-> FALSE]
             ELSE LET W2 == Sys(W1, "copy", destPath,
                                copyFile(W1.fs, job.Path, destPath, io))
                  IN  [W |-> Sys(W2, "remove", job.Path,
                                 osRemove(W2.fs, job.Path, io)),
                       err |-> Last(W2.sys).err]
    ELSE LET W1 == Sys(W, "copy", destPath, copyFile(W.fs, job.Path, destPath, io))
         IN  [W |-> W1, err |-> Last(W1.sys).err]

\* the rename-or-copy part of performTransfer / transferFile: the world after
\* it and the err the code goes on to test
moveOrCopy(c, W, job, destPath, io) ==
    IF c.Move
    THEN LET W1 == Sys(W, "rename", destPath, osRename(W.fs, job.Path, destPath, io))
         IN  IF ~Last(W1.sys).err THEN [W |-> W1, err |-> FALSE]
             ELSE LET W2 == Sys(W1, "copy", destPath,
                                copyFile(W1.fs, job.Path, destPath, io))
                  IN  IF Last(W2.sys).err THEN [W |-> W2, err |-> TRUE]
                      ELSE \* os.Remove(job.Path): its error is dropped
                           [W |-> Sys(W2, "remove", job.Path,
                                      osRemove(W2.fs, job.Path, io)),
                            err |-> FALSE]
    ELSE LET W1 == Sys(W, "copy", destPath, copyFile(W.fs, job.Path, destPath, io))
         IN  [W |-> W1, err |-> Last(W1.sys).err]

\* performTransfer without the dry-run test
performTransferNoDryRun(c, r, W, job, destPath, io) ==
    IF ~io.mkdir
    THEN LogError([W EXCEPT !.stats = IF r = RevB THEN IncError(@) ELSE @,
                            !.sys = Append(@, [op |-> "mkdir", path |-> destPath,
                                               err |-> TRUE])],
                  job.Path, destPath)
    ELSE LET W1 == [W EXCEPT !.dirs = @ \cup {Dir(destPath)},
                             !.sys = Append(@, [op |-> "mkdir", path |-> destPath,
                                                err |-> FALSE])]
             tr == moveOrCopy(c, W1, job, destPath, io)
         IN  IF tr.err
             THEN LogError([tr.W EXCEPT !.stats = IncError(@)], job.Path, destPath)
             ELSE LogTransfer([tr.W EXCEPT !.stats = AddBytes(IncProcessed(@), job.Size)],
                              job.Path, destPath)

\* performTransfer (import.go) / transferFile (part_001)
performTransfer(c, r, W, job, destPath, io) ==
    IF c.DryRun THEN LogTransfer(W, job.Path, destPath)
    ELSE IF ~io.mkdir
         THEN \* os.MkdirAll failed; only part_001 counts it as an error
              LogError([W EXCEPT !.stats = IF r = RevB THEN IncError(@) ELSE @,
                                 !.sys = Append(@, [op |-> "mkdir", path |-> destPath,
                                                    err |-> TRUE])],
                       job.Path, destPath)
    ELSE LET W1 == [W EXCEPT !.dirs = @ \cup {Dir(destPath)},
                             !.sys = Append(@, [op |-> "mkdir", path |-> destPath,
                                                err |-> FALSE])]
             tr == moveOrCopy(c, W1, job, destPath, io)
         IN  IF tr.err
             THEN LogError([tr.W EXCEPT !.stats = IncError(@)], job.Path, destPath)
             ELSE LogTransfer([tr.W EXCEPT !.stats = AddBytes(IncProcessed(@), job.Size)],
                              job.Path, destPath)

(* --------------------------- conflict chain ---------------------------- *)
\* fmt.Sprintf("%s_%016x%s", ...) in import.go, "%s_%08x%s" in part_001
hashedDestOf(r, base, hash, ext) ==
    Path(base.dir,
         base.stem \o "_" \o FmtHex(hash, IF r = RevA THEN 16 ELSE 8),
         ext)

\* fmt.Sprintf("%s_%s_%d%s", ...) in import.go, "%s_%08x_%d%s" in part_001
counterDestOf(r, base, hash, n, ext) ==
    Path(base.dir,
         base.stem \o "_" \o (IF r = RevA THEN FmtBadVerbS(hash) ELSE FmtHex(hash, 8))
                   \o "_" \o FmtDec(n),
         ext)

RECURSIVE counterLoop(_, _, _, _, _, _, _)
\* the loop over n = 1, 2, ...: the first free counter path, or, in part_001,
\* a counter path that already holds the job's content
counterLoop(c, r, fs, job, base, ext, n) ==
    LET counterDest == counterDestOf(r, base, job.Hash, n, ext)
    IN  IF ~Exists(fs, counterDest)
        THEN [dup |-> FALSE, dest |-> counterDest, n |-> n]
        ELSE IF r = RevB /\ isFileIdentical(c, fs, job, counterDest)
             THEN [dup |-> TRUE, dest |-> counterDest, n |-> n]
        ELSE counterLoop(c, r, fs, job, base, ext, n + 1)

\* step 1 of importOne: which branch is taken and the resolved finalDest
resolveConflict(c, r, fs, job, originalDest) ==
    IF ~Exists(fs, originalDest)
    THEN [out |-> "DirectTransfer", dest |-> originalDest]
    ELSE IF isFileIdentical(c, fs, job, originalDest)
         THEN [out |-> "ExactDuplicate", dest |-> originalDest]
    ELSE IF c.Conflict = "skip"
         THEN [out |-> "Skipped", dest |-> originalDest]
    ELSE IF c.Conflict = "overwrite"
         THEN [out |-> "DirectTransfer", dest |-> originalDest]
    ELSE LET ext == Ext(originalDest)
             base == TrimSuffix(originalDest)
             hashedDest == hashedDestOf(r, base, job.Hash, ext)
         IN  IF ~Exists(fs, hashedDest)
             THEN [out |-> "RenamedBySuffix", dest |-> hashedDest]
             ELSE IF isFileIdentical(c, fs, job, hashedDest)
                  THEN [out |-> "ExactDuplicate", dest |-> hashedDest]
             ELSE LET cl == counterLoop(c, r, fs, job, base, ext, 1)
                  IN  IF cl.dup THEN [out |-> "ExactDuplicate", dest |-> cl.dest]
                      ELSE [out |-> "RenamedByCounter", dest |-> cl.dest]

\* importOne with the skip policy falling through to the transfer
importOneSkipFallsThrough(c, r, W, job, originalDest, io) ==
    LET res == resolveConflict(c, r, W.fs, job, originalDest)
        W0 == [W EXCEPT !.sys = <<>>]
    IN  IF res.out = "ExactDuplicate" THEN handleDuplicate(c, W0, job, io)
        ELSE performTransfer(c, r, W0, job, res.dest, io)

\* importOne(ctx, job, originalDest): the world after the call
importOne(c, r, W, job, originalDest, io) ==
    LET res == resolveConflict(c, r, W.fs, job, originalDest)
        W0 == [W EXCEPT !.sys = <<>>]
    IN  IF res.out = "ExactDuplicate" THEN handleDuplicate(c, W0, job, io)
        ELSE IF res.out = "Skipped" THEN W0
        ELSE performTransfer(c, r, W0, job, res.dest, io)

(* ------------------------- naming of destinations ---------------------- *)
\* capture times the model's files carry (what GetTime returns for them)
Date1 == [year |-> "2023", month |-> "05", day |-> "10",
          hour |-> "14", min |-> "22", sec |-> "31"]
Date2 == [year |-> "2023", month |-> "05", day |-> "10",
          hour |-> "14", min |-> "22", sec |-> "32"]
Dates == {Date1, Date2}

JpgExt == ".jpg"

\* formatPath with the default format
\* {year}/{year}-{month}/{year}{month}{day}_{hour}{min}{sec}.{ext},
\* joined under dstRoot by filepath.Join
formatPath(root, t, path) ==
    Path(root \o "/" \o t.year \o "/" \o t.year \o "-" \o t.month,
         t.year \o t.month \o t.day \o "_" \o t.hour \o t.min \o t.sec,
         Ext(path))

SrcDir == "src"
DstRoot == "dst"
SrcA == Path(SrcDir, "a", JpgExt)
SrcB == Path(SrcDir, "b", JpgExt)
SrcC == Path(SrcDir, "c", JpgExt)

\* the paths of the conflict chain of fingerprint h below destination D,
\* in the order importOne tries them
ChainPaths(r, D, h, len) ==
    [i \in 1..len |->
        IF i = 1 THEN D
        ELSE IF i = 2 THEN hashedDestOf(r, TrimSuffix(D), h, Ext(D))
        ELSE counterDestOf(r, TrimSuffix(D), h, i - 2, Ext(D))]

\* largest counter the directory listing knows
MaxCounter == MaxPre + 3

Fingerprints == 0..(FpMod - 1)

RECURSIVE Concat(_, _, _)
\* f[lo] \o f[lo+1] \o ... \o f[hi] for a function f to sequences
Concat(f, lo, hi) == IF lo > hi THEN <<>> ELSE f[lo] \o Concat(f, lo + 1, hi)

\* the names one destination stem can take, in the lexical order
\* os.ReadDir lists them ('%' < '.' < '0' < '_' in "stem_..." after the stem:
\* the plain name first, then import.go's counter names, then per fingerprint
\* the hashed name followed by part_001's counter names)
NamesOf(r, D) ==
    LET base == TrimSuffix(D)
        ctr(h) == [n \in 1..MaxCounter |-> counterDestOf(r, base, h, n, Ext(D))]
        bad == [h \in Fingerprints |-> ctr(h)]
        hex == [h \in Fingerprints |->
                   <<hashedDestOf(r, base, h, Ext(D))>>
                   \o (IF r = RevB THEN ctr(h) ELSE <<>>)]
    IN  <<D>> \o (IF r = RevA THEN Concat(bad, 0, FpMod - 1) ELSE <<>>)
             \o Concat(hex, 0, FpMod - 1)

\* every path of the model in the order filepath.WalkDir meets it
LexOrder(r) ==
    NamesOf(r, formatPath(DstRoot, Date1, SrcA))
    \o NamesOf(r, formatPath(DstRoot, Date2, SrcA))
    \o <<SrcA, SrcB, SrcC>>

\* is path p inside the tree rooted at root
Under(root, p) == p.dir = root \/ (root = DstRoot /\ p.dir # SrcDir)

\* the files filepath.WalkDir(root) lists, in walk order
ReadDir(r, fs, root) ==
    SelectSeq(LexOrder(r), LAMBDA p : Exists(fs, p) /\ Under(root, p))

(* ------------------------------- state --------------------------------- *)
VARIABLES
    cfg,        \* the parsed flags: DryRun, Move, DeepCheck, Conflict, MinSizeBytes
    rev,        \* which revision of the pipeline runs
    srcRoot,    \* first argument of Run (the second is DstRoot)
    W,          \* the world: fs, dirs, stats, log, sys
    jobs,       \* the buffered channel of FileJob
    prod,       \* the walking goroutine: pc, entries left to visit, job in hand
    cons,       \* the consumer loop of Run: "loop", or what Run returned
    cancelled,  \* ctx.Done() is closed
    env,        \* what the environment may still do: faults (importOne calls
                \* that may meet a failing system call), interrupt (may ctx
                \* be cancelled), runs (times main may be started again)
    run,        \* history: how many times main has been started
    start,      \* history: fs and dirs when the current run started
    handled,    \* history: the jobs importOne was called with in this run
    last,       \* history: the latest importOne call
    failed,     \* history: the files of this run the walk could not open or read
    meta,       \* a call of MetadataService.GetTime: its inputs and its result
    midWalk     \* history: ctx was cancelled while the walk was in progress

vars == <<cfg, rev, srcRoot, W, jobs, prod, cons, cancelled, env,
          run, start, handled, last, failed, meta, midWalk>>

\* how many importOne calls of one behaviour may meet a failing system call
MaxFaults == 1

\* how many of the leading chain paths may be occupied initially in the
\* behaviours with failing system calls or an interrupt
MaxPreFaulty == 1

\* cfg.MinSizeBytes (the -min-size flag, in bytes)
MinSizeBytes == 1

Conflicts == {"rename", "skip", "overwrite"}

Cfgs == [DryRun : BOOLEAN, Move : BOOLEAN, DeepCheck : BOOLEAN,
         Conflict : Conflicts, MinSizeBytes : {MinSizeBytes}]

File(data, date) == [data |-> data, date |-> date]

\* the FileJob the walk builds for the file at path p
FileJobOf(fs, p) ==
    [Path |-> p,
     Size |-> Len(fs[p].data),
     Date |-> fs[p].date,
     SourceHead |-> ReadHead(fs[p].data),
     Hash |-> computeFingerprint(ReadHead(fs[p].data), Len(fs[p].data))]

NoJob == [Path |-> NoPath, Size |-> 0, Date |-> Date1, SourceHead |-> <<>>, Hash |-> 0]

EmptyWorld == [fs |-> <<>>, dirs |-> {}, stats |-> ZeroStats, log |-> <<>>,
               sys |-> <<>>]

\* last: the job and destPath of the call, the branch taken and the resolved
\* finalDest, the faults met, and the world before and after the call
NoCall == [called |-> FALSE, job |-> NoJob, dest |-> NoPath, out |-> "",
           final |-> NoPath, io |-> NoFault, pre |-> EmptyWorld,
           post |-> EmptyWorld]

Idle == [pc |-> "walk", entries |-> <<>>, job |-> NoJob]

\* meta while no call of GetTime is being looked at
NoMeta == [pc |-> "none"]

(* ---------------------------- initial states --------------------------- *)
\* the source trees: a alone, or a and b (b at the same second as a with the
\* same body or one that differs in the last or the first byte, or one second
\* later with the same body)
SrcTrees ==
    {SrcA :> File(Ref, Date1)}
    \cup {(SrcA :> File(Ref, Date1)) @@ (SrcB :> File(c, Date1)) :
             c \in {Ref, TailVariant, HeadVariant}}
    \cup {(SrcA :> File(Ref, Date1)) @@ (SrcB :> File(Ref, Date2))}

SmallSrcTrees ==
    {SrcA :> File(Ref, Date1),
     (SrcA :> File(Ref, Date1)) @@ (SrcB :> File(Ref, Date1))}

\* a source tree with more files than the channel of the model holds
LongSrcTrees ==
    {(SrcA :> File(Ref, Date1)) @@ (SrcB :> File(Ref, Date1))
        @@ (SrcC :> File(Ref, Date2))}

\* the destination the first source file is computed to go to
DestA == formatPath(DstRoot, Date1, SrcA)

\* destination trees, as sequences of files to lay along the conflict chain
\* of Ref's fingerprint: its first k <= maxk paths are occupied, the first by
\* any body, the others by Ref's body or a different one
PreTrees(maxk) ==
    UNION {{[i \in 1..k |-> File(cs[i], Date1)] :
              cs \in {f \in [1..k -> Contents] :
                        \A i \in 2..k : f[i] \in {Ref, HeadVariant}}}
           : k \in 0..maxk}

\* the file system that holds src (a function on paths) and the files pre
\* (a sequence) along the chain
Lay(r, src, pre) ==
    LET h == computeFingerprint(ReadHead(Ref), Len(Ref))
        chain == ChainPaths(r, DestA, h, MaxPre)
        dst == [p \in {chain[i] : i \in 1..Len(pre)} |->
                   pre[CHOOSE i \in 1..Len(pre) : chain[i] = p]]
    IN  src @@ dst

\* the directories that exist with the files of Lay(r, src, pre)
LayDirs(root, pre) ==
    (IF root = SrcDir THEN {SrcDir} ELSE {})
    \cup (IF Len(pre) > 0 THEN {Dir(DestA)} ELSE {})

\* the trees and the environment of a behaviour: large trees with a quiet
\* environment that may start main again, or small trees with an environment
\* that fails system calls, or small trees with one that interrupts, or a
\* long source tree and an empty destination with one that interrupts
Scenarios ==
    [pre : PreTrees(MaxPre), src : SrcTrees,
     env : {[faults |-> 0, interrupt |-> FALSE, runs |-> MaxRuns - 1]}]
    \cup [pre : {<<>>}, src : LongSrcTrees,
          env : {[faults |-> 0, interrupt |-> TRUE, runs |-> 0]}]
    \cup [pre : PreTrees(MaxPreFaulty), src : SmallSrcTrees,
          env : {[faults |-> MaxFaults, interrupt |-> FALSE, runs |-> 0],
                 [faults |-> 0, interrupt |-> TRUE, runs |-> 0]}]

Init ==
    /\ rev \in Revs
    /\ cfg \in Cfgs
    /\ srcRoot \in {SrcDir, DstRoot}
    /\ \E sc \in Scenarios :
         LET src == IF srcRoot = SrcDir THEN sc.src ELSE <<>>
         IN  /\ srcRoot = DstRoot => sc.src = SrcA :> File(Ref, Date1)
             /\ env = sc.env
             /\ W = [fs |-> Lay(rev, src, sc.pre), dirs |-> LayDirs(srcRoot, sc.pre),
                     stats |-> ZeroStats, log |-> <<>>, sys |-> <<>>]
             /\ start = [fs |-> Lay(rev, src, sc.pre),
                         dirs |-> LayDirs(srcRoot, sc.pre)]
    /\ run = 1
    /\ jobs = <<>>
    /\ prod = Idle
    /\ cons = "loop"
    /\ cancelled = FALSE
    /\ handled = <<>>
    /\ last = NoCall
    /\ failed = {}
    /\ meta = NoMeta
    /\ midWalk = FALSE

(* ------------------------------ producer ------------------------------- *)
\* filepath.WalkDir(srcRoot, ...) lists the tree
WalkStart ==
    /\ cons = "loop"
    /\ prod.pc = "walk"
    /\ prod' = [pc |-> "visit", entries |-> ReadDir(rev, W.fs, srcRoot), job |-> NoJob]
    /\ UNCHANGED <<cfg, rev, srcRoot, W, jobs, cons, cancelled, env,
                   run, start, handled, last, failed, meta, midWalk>>

\* the walk callback up to the select: a FileJob is built and counted
Visit ==
    /\ cons = "loop"
    /\ prod.pc = "visit"
    /\ prod.entries # <<>>
    /\ LET p == Head(prod.entries)
       IN  IF \/ ~Exists(W.fs, p)
              \/ (rev = RevB /\ Len(W.fs[p].data) < cfg.MinSizeBytes)
           THEN \* d.Info() fails, or the file is too small: return nil
                /\ prod' = [prod EXCEPT !.entries = Tail(@)]
                /\ W' = W
           ELSE /\ prod' = [pc |-> "send", entries |-> Tail(prod.entries),
                            job |-> FileJobOf(W.fs, p)]
                /\ W' = [W EXCEPT !.stats = IncScanned(@)]
    /\ UNCHANGED <<cfg, rev, srcRoot, jobs, cons, cancelled, env,
                   run, start, handled, last, failed, meta, midWalk>>

\* VisitFail with the error returned to filepath.WalkDir, which ends the walk
VisitFailAbortsWalk ==
    /\ cons = "loop"
    /\ prod.pc = "visit"
    /\ prod.entries # <<>>
    /\ Exists(W.fs, Head(prod.entries))
    /\ env.faults > 0
    /\ env' = [env EXCEPT !.faults = @ - 1]
    /\ prod' = [pc |-> "closed", entries |-> <<>>, job |-> NoJob]
    /\ failed' = failed \cup {Head(prod.entries)}
    /\ UNCHANGED <<cfg, rev, srcRoot, W, jobs, cons, cancelled,
                   run, start, handled, last, meta, midWalk>>

\* the walk callback when os.Open or io.ReadFull fails: the file is skipped
VisitFail ==
    /\ cons = "loop"
    /\ prod.pc = "visit"
    /\ prod.entries # <<>>
    /\ Exists(W.fs, Head(prod.entries))
    /\ env.faults > 0
    /\ env' = [env EXCEPT !.faults = @ - 1]
    /\ prod' = [prod EXCEPT !.entries = Tail(@)]
    /\ failed' = failed \cup {Head(prod.entries)}
    /\ UNCHANGED <<cfg, rev, srcRoot, W, jobs, cons, cancelled,
                   run, start, handled, last, meta, midWalk>>

\* Send into a channel without a capacity
SendUnbounded ==
    /\ cons = "loop"
    /\ prod.pc = "send"
    /\ jobs' = Append(jobs, prod.job)
    /\ prod' = [prod EXCEPT !.pc = "visit", !.job = NoJob]
    /\ UNCHANGED <<cfg, rev, srcRoot, W, cons, cancelled, env,
                   run, start, handled, last, failed, meta, midWalk>>

\* select case jobs <- FileJob{...}: blocks while the channel is full
Send ==
    /\ cons = "loop"
    /\ prod.pc = "send"
    /\ Len(jobs) < QueueCap
    /\ jobs' = Append(jobs, prod.job)
    /\ prod' = [prod EXCEPT !.pc = "visit", !.job = NoJob]
    /\ UNCHANGED <<cfg, rev, srcRoot, W, cons, cancelled, env,
                   run, start, handled, last, failed, meta, midWalk>>

\* select case <-ctx.Done(): return filepath.SkipAll, then close(jobs)
SendCancelled ==
    /\ cons = "loop"
    /\ prod.pc = "send"
    /\ cancelled
    /\ prod' = [pc |-> "closed", entries |-> <<>>, job |-> NoJob]
    /\ UNCHANGED <<cfg, rev, srcRoot, W, jobs, cons, cancelled, env,
                   run, start, handled, last, failed, meta, midWalk>>

\* WalkEnd without the deferred close(jobs)
WalkEndNoClose ==
    /\ cons = "loop"
    /\ prod.pc = "visit"
    /\ prod.entries = <<>>
    /\ prod' = [pc |-> "returned", entries |-> <<>>, job |-> NoJob]
    /\ UNCHANGED <<cfg, rev, srcRoot, W, jobs, cons, cancelled, env,
                   run, start, handled, last, failed, meta, midWalk>>

\* the walk is over: defer close(jobs)
WalkEnd ==
    /\ cons = "loop"
    /\ prod.pc = "visit"
    /\ prod.entries = <<>>
    /\ prod' = [pc |-> "closed", entries |-> <<>>, job |-> NoJob]
    /\ UNCHANGED <<cfg, rev, srcRoot, W, jobs, cons, cancelled, env,
                   run, start, handled, last, failed, meta, midWalk>>

(* ------------------------------ consumer ------------------------------- *)
\* every fault of io is met by the call: taking any one of them away changes
\* what the call does
Felt(c, r, Wd, job, destPath, io) ==
    \A f \in DOMAIN io :
        io[f] # NoFault[f] =>
            importOne(c, r, Wd, job, destPath, [io EXCEPT ![f] = NoFault[f]])
                # importOne(c, r, Wd, job, destPath, io)

\* Dequeue receiving the job sent last instead of the job sent first
DequeueNewest ==
    /\ cons = "loop"
    /\ jobs # <<>>
    /\ LET job == Last(jobs)
           destPath == formatPath(DstRoot, job.Date, job.Path)
           res == resolveConflict(cfg, rev, W.fs, job, destPath)
       IN  \E io \in (IF env.faults > 0 THEN IOs ELSE {NoFault}) :
             LET W1 == importOne(cfg, rev, W, job, destPath, io)
             IN  /\ Felt(cfg, rev, W, job, destPath, io)
                 /\ env' = IF io # NoFault THEN [env EXCEPT !.faults = @ - 1] ELSE env
                 /\ W' = W1
                 /\ last' = [called |-> TRUE, job |-> job, dest |-> destPath,
                             out |-> res.out, final |-> res.dest, io |-> io,
                             pre |-> W, post |-> W1]
                 /\ handled' = Append(handled, [job |-> job, dest |-> destPath])
    /\ jobs' = SubSeq(jobs, 1, Len(jobs) - 1)
    /\ UNCHANGED <<cfg, rev, srcRoot, prod, cons, cancelled, run, start,
                   failed, meta, midWalk>>

\* select case job, ok := <-jobs with ok: destPath is computed and importOne runs
Dequeue ==
    /\ cons = "loop"
    /\ jobs # <<>>
    /\ LET job == Head(jobs)
           destPath == formatPath(DstRoot, job.Date, job.Path)
           res == resolveConflict(cfg, rev, W.fs, job, destPath)
       IN  \E io \in (IF env.faults > 0 THEN IOs ELSE {NoFault}) :
             LET W1 == importOne(cfg, rev, W, job, destPath, io)
             IN  /\ Felt(cfg, rev, W, job, destPath, io)
                 /\ env' = IF io # NoFault THEN [env EXCEPT !.faults = @ - 1] ELSE env
                 /\ W' = W1
                 /\ last' = [called |-> TRUE, job |-> job, dest |-> destPath,
                             out |-> res.out, final |-> res.dest, io |-> io,
                             pre |-> W, post |-> W1]
                 /\ handled' = Append(handled, [job |-> job, dest |-> destPath])
    /\ jobs' = Tail(jobs)
    /\ UNCHANGED <<cfg, rev, srcRoot, prod, cons, cancelled, run, start,
                   failed, meta, midWalk>>

\* select case job, ok := <-jobs with !ok: return nil
ReturnNil ==
    /\ cons = "loop"
    /\ jobs = <<>>
    /\ prod.pc = "closed"
    /\ cons' = "nil"
    /\ UNCHANGED <<cfg, rev, srcRoot, W, jobs, prod, cancelled, env,
                   run, start, handled, last, failed, meta, midWalk>>

\* select case <-ctx.Done(): return ctx.Err()
ReturnCancelled ==
    /\ cons = "loop"
    /\ cancelled
    /\ cons' = "ctxErr"
    /\ UNCHANGED <<cfg, rev, srcRoot, W, jobs, prod, cancelled, env,
                   run, start, handled, last, failed, meta, midWalk>>

(* ----------------------------- environment ----------------------------- *)
\* an interrupt arrives: signal.NotifyContext cancels ctx
Cancel ==
    /\ cons = "loop"
    /\ env.interrupt
    /\ ~cancelled
    /\ cancelled' = TRUE
    /\ midWalk' = (prod.pc # "closed")
    /\ UNCHANGED <<cfg, rev, srcRoot, W, jobs, prod, cons, env,
                   run, start, handled, last, failed, meta>>

\* main is started again with the same arguments: InitStats, a fresh channel
Restart ==
    /\ cons = "nil"
    /\ env.runs > 0
    /\ env' = [env EXCEPT !.runs = @ - 1]
    /\ run' = run + 1
    /\ W' = [W EXCEPT !.stats = ZeroStats, !.log = <<>>, !.sys = <<>>]
    /\ start' = [fs |-> W.fs, dirs |-> W.dirs]
    /\ jobs' = <<>>
    /\ prod' = Idle
    /\ cons' = "loop"
    /\ cancelled' = FALSE
    /\ handled' = <<>>
    /\ last' = NoCall
    /\ failed' = {}
    /\ midWalk' = FALSE
    /\ UNCHANGED <<cfg, rev, srcRoot, meta>>

Next ==
    \/ WalkStart
    \/ Visit
    \/ VisitFail
    \/ Send
    \/ SendCancelled
    \/ WalkEnd
    \/ Dequeue
    \/ ReturnNil
    \/ ReturnCancelled
    \/ Cancel
    \/ Restart

Spec == Init /\ [][Next]_vars

(* ------------------------- properties: helpers ------------------------- *)
\* p lies under the destination root
IsDest(p) == Under(DstRoot, p)

\* the body of the latest job's source file when importOne was called
SrcData == last.pre.fs[last.job.Path].data

\* the latest importOne call made system call op, and it failed iff err
HasCall(op, err) ==
    \E i \in 1..Len(last.post.sys) :
        last.post.sys[i].op = op /\ last.post.sys[i].err = err

\* the latest importOne call created no destination file and changed none
NoDestWrite ==
    \A p \in DOMAIN last.post.fs :
        IsDest(p) => (Exists(last.pre.fs, p) /\ last.pre.fs[p] = last.post.fs[p])

\* destPath existed and was identical to the job when importOne was called
DestIdentical ==
    /\ last.called
    /\ Exists(last.pre.fs, last.dest)
    /\ isFileIdentical(cfg, last.pre.fs, last.job, last.dest)

\* destPath existed and was not identical to the job when importOne was called
DestDiffers ==
    /\ last.called
    /\ Exists(last.pre.fs, last.dest)
    /\ ~isFileIdentical(cfg, last.pre.fs, last.job, last.dest)

\* the fingerprint-suffixed path of the latest call, and its counter paths
\* written with the same rendering of the fingerprint
HashedPath == hashedDestOf(rev, TrimSuffix(last.dest), last.job.Hash, Ext(last.dest))
HexCounterPath(n) == Path(HashedPath.dir, HashedPath.stem \o "_" \o FmtDec(n),
                          HashedPath.ext)

RECURSIVE RunJobs(_, _, _, _)
\* the world after importOne has handled the jobs hs in order, without faults
RunJobs(c, r, Wd, hs) ==
    IF hs = <<>> THEN Wd
    ELSE RunJobs(c, r, importOne(c, r, Wd, Head(hs).job, Head(hs).dest, NoFault),
                 Tail(hs))

\* what a run without -dry-run logs for the jobs of this run, from the trees
\* this run started with
RealLog ==
    RunJobs([cfg EXCEPT !.DryRun = FALSE], rev,
            [fs |-> start.fs, dirs |-> start.dirs, stats |-> ZeroStats,
             log |-> <<>>, sys |-> <<>>],
            handled).log

(* ------------------------------ properties ----------------------------- *)
\* C1: under the rename or skip policy, without dry-run, importOne leaves every
\* file that existed under the destination root before the call in place with
\* its content unchanged (so whatever it writes goes to a path that was free).
C1_PreexistingDestUntouched ==
    (last.called /\ cfg.Conflict \in {"rename", "skip"} /\ ~cfg.DryRun) =>
        \A p \in DOMAIN last.pre.fs :
            IsDest(p) => (Exists(last.post.fs, p) /\ last.post.fs[p] = last.pre.fs[p])

\* C2: in copy mode with the rename policy, every job of a second run over the
\* unchanged source tree resolves to ExactDuplicate, and the second run creates
\* and changes no file.
C2_RerunIdempotent ==
    (run > 1 /\ last.called /\ ~cfg.Move /\ ~cfg.DryRun /\ cfg.Conflict = "rename") =>
        (last.out = "ExactDuplicate" /\ W.fs = start.fs)

\* C3: in move mode, whenever importOne has deleted the source as an
\* ExactDuplicate, some file under the destination root holds the source's
\* whole content after the deletion.
C3_DuplicateDeletionKeepsContent ==
    (/\ last.called /\ cfg.Move /\ ~cfg.DryRun
     /\ last.out = "ExactDuplicate"
     /\ ~Exists(last.post.fs, last.job.Path)) =>
        \E p \in DOMAIN last.post.fs : IsDest(p) /\ last.post.fs[p].data = SrcData

\* C4: in move mode, when os.Rename fails and copyFile is used, the source is
\* gone afterwards only if the copy returned no error and the destination holds
\* the whole source content; if the copy failed, the source is still there,
\* unchanged.
C4_SourceRemovedOnlyAfterCopy ==
    (last.called /\ cfg.Move /\ ~cfg.DryRun /\ HasCall("rename", TRUE)) =>
        /\ ~Exists(last.post.fs, last.job.Path) =>
               /\ HasCall("copy", FALSE)
               /\ Exists(last.post.fs, last.final)
               /\ last.post.fs[last.final].data = SrcData
        /\ HasCall("copy", TRUE) =>
               /\ Exists(last.post.fs, last.job.Path)
               /\ last.post.fs[last.job.Path] = last.pre.fs[last.job.Path]

\* the copy fallback ran after a failed rename and the source was removed
C4_Witness ==
    /\ last.called /\ cfg.Move /\ ~cfg.DryRun
    /\ HasCall("rename", TRUE) /\ HasCall("copy", FALSE)
    /\ ~Exists(last.post.fs, last.job.Path)
    /\ last.post.fs[last.final].data = SrcData

C6_ConflictChainPath ==
    (/\ DestDiffers /\ cfg.Conflict = "rename"
     /\ Exists(last.pre.fs, HashedPath)
     /\ ~isFileIdentical(cfg, last.pre.fs, last.job, HashedPath)
     /\ last.out # "ExactDuplicate") =>
        \E n \in 1..MaxCounter :
            /\ last.final = HexCounterPath(n)
            /\ ~Exists(last.pre.fs, HexCounterPath(n))
            /\ \A m \in 1..(n - 1) : Exists(last.pre.fs, HexCounterPath(m))

C8_SkipPolicyFrame ==
    (DestDiffers /\ cfg.Conflict = "skip") =>
        /\ last.out = "Skipped"
        /\ last.post.fs = last.pre.fs
        /\ last.post.dirs = last.pre.dirs
        /\ last.post.stats = last.pre.stats

\* a job was skipped in move mode
C8_Witness ==
    /\ DestDiffers /\ cfg.Conflict = "skip" /\ cfg.Move /\ ~cfg.DryRun
    /\ last.out = "Skipped"
    /\ Exists(last.post.fs, last.job.Path)

\* C9: with dry-run set, the files and directories of both trees stay what
\* they were when the run started, whatever the policy and the mode.
C9_DryRunMutationFree ==
    cfg.DryRun => (W.fs = start.fs /\ W.dirs = start.dirs)

\* a dry run in move mode has finished after logging a transfer and a duplicate
C9_Witness ==
    /\ cfg.DryRun /\ cfg.Move /\ cons = "nil"
    /\ \E i \in 1..Len(W.log) : W.log[i].kind = "Transfer"
    /\ \E i \in 1..Len(W.log) : W.log[i].kind = "Duplicate"

\* C10: what a finished dry run has logged, job by job, is what a run without
\* dry-run logs for the same jobs from the same trees.
C10_DryRunLogEqualsRealRun ==
    (cfg.DryRun /\ cons = "nil") => W.log = RealLog


\* C11: once ctx is cancelled the walk enqueues no further job, and the first
\* time the walk callback is at its select after the cancellation it leaves
\* the walk altogether (filepath.SkipAll), whatever room the channel has.
C11_NoEnqueueAfterCancel ==
    [][(cancelled /\ cons = "loop") =>
          /\ Len(jobs') <= Len(jobs)
          /\ (prod.pc = "send" /\ prod' # prod) => prod'.pc = "closed"]_vars

\* C12: when ctx was cancelled while the walk was still in progress, Run does
\* not return nil (it returns ctx.Err(), which main reports as an interruption).
C12_CancelMidWalkNeverNil ==
    midWalk => cons # "nil"

\* C16: once ctx is cancelled the consumer starts no further importOne call;
\* the jobs still in the channel stay there.
C16_NoImportAfterCancel ==
    [][(cancelled /\ cons = "loop") => handled' = handled]_vars


\* C13: when copyFile fails for a job, the job's final destination path is in
\* the state it had before the call: absent if it was absent, and with its
\* old content if it existed.
C13_FailedCopyLeavesNoPartial ==
    (last.called /\ HasCall("copy", TRUE)) =>
        /\ Exists(last.post.fs, last.final) <=> Exists(last.pre.fs, last.final)
        /\ Exists(last.pre.fs, last.final) =>
               last.post.fs[last.final] = last.pre.fs[last.final]


\* the files of the source tree the walk of this run has to enqueue
Qualifying ==
    {p \in DOMAIN start.fs :
        /\ Under(srcRoot, p)
        /\ rev = RevB => Len(start.fs[p].data) >= cfg.MinSizeBytes}

\* the paths importOne was called with in this run
HandledPaths == {handled[i].job.Path : i \in 1..Len(handled)}

\* C14: Run returns a non-nil error only after a cancellation, it returns nil
\* only when the walk is over and the channel is drained, and, without a
\* cancellation, when it has returned every qualifying file of the source tree
\* except the ones the walk could not open or read was handed to importOne,
\* whether or not a system call of some transfer failed.
C14_PerFileFailuresIsolated ==
    /\ cons = "ctxErr" => cancelled
    /\ cons = "nil" => (prod.pc = "closed" /\ jobs = <<>>)
    /\ (cons = "nil" /\ ~cancelled /\ srcRoot = SrcDir) =>
           Qualifying \ failed \subseteq HandledPaths

\* the walk could not read the first file, the second was still imported, and
\* Run returned nil
C14_Witness ==
    /\ cons = "nil" /\ srcRoot = SrcDir
    /\ failed = {SrcA}
    /\ HandledPaths = {SrcB}

\* a transfer failed, a later job was still imported, and Run returned nil
C14_WitnessTransfer ==
    /\ cons = "nil" /\ srcRoot = SrcDir
    /\ Len(W.log) = 2
    /\ W.log[1].kind = "Error" /\ W.log[1].src = SrcA
    /\ W.log[2].kind # "Error" /\ W.log[2].src = SrcB


(* ----------------------- MetadataService.GetTime ----------------------- *)
\* An error is the chain of its messages, outermost first; nil is the empty
\* chain.  fmt.Errorf("%w: ...", e) puts a message in front of the chain of e.
Nil == <<>>
ErrUnsupported == <<"unsupported format">>
Wrap(msg, e) == <<msg>> \o e

\* errors.Is(err, target): target is err or one of the errors err wraps
errorsIs(err, target) ==
    \E i \in 1..Len(err) : SubSeq(err, i, Len(err)) = target

\* the errors exifdate.Get returns
GetErrors ==
    {ErrUnsupported,
     Wrap("unsupported format: data too short", ErrUnsupported),
     Wrap("unsupported format: unknown date format", ErrUnsupported),
     <<"no exif data found">>,
     <<"no date tag found">>,
     <<"date not set">>,
     <<"unexpected EOF">>,
     Wrap("meta box not found: box meta not found", <<"box meta not found">>)}

\* time.Time{}
ZeroTime == [year |-> "0001", month |-> "01", day |-> "01",
             hour |-> "00", min |-> "00", sec |-> "00"]

\* what exifdate.Get(f) returns: a time and nil, or the zero time and an error
GetResults ==
    {[t |-> d, err |-> Nil] : d \in Dates}
    \cup {[t |-> ZeroTime, err |-> e] : e \in GetErrors}

\* the keys fallbackExifTool looks up, in its order
Keys == <<"DateTimeOriginal", "CreateDate", "MediaCreateDate">>

\* a value of fileInfo.Fields[key]: missing, not a string, or a string
Absent == [kind |-> "absent", s |-> ""]
NonString == [kind |-> "float64", s |-> ""]
Str(s) == [kind |-> "string", s |-> s]
FieldValues == {Absent, NonString, Str("2023:05:10 14:22:31"),
                Str("2023:05:10 14:22:32"), Str("2023-05-10T14:22:31")}

\* time.Parse("2006:01:02 15:04:05", dateStr)
timeParse(s) ==
    IF s = "2023:05:10 14:22:31" THEN [t |-> Date1, err |-> Nil]
    ELSE IF s = "2023:05:10 14:22:32" THEN [t |-> Date2, err |-> Nil]
    ELSE [t |-> ZeroTime, err |-> <<"parsing time">>]

\* the FileMetadata values et.ExtractMetadata returns: one with Err set and no
\* fields, or one with some value for each key
NoFields == [k \in 1..Len(Keys) |-> Absent]
ErrInfo == [Err |-> TRUE, Fields |-> NoFields]
FileInfos ==
    {ErrInfo} \cup {[Err |-> FALSE, Fields |-> f] : f \in [1..Len(Keys) -> FieldValues]}

\* the results of et.ExtractMetadata(path): none, one, or a second one after
\* a first that is in error or holds a string that is no date
Dateless == [Err |-> FALSE, Fields |-> [k \in 1..Len(Keys) |-> Str("2023-05-10T14:22:31")]]
ExtractResults ==
    {<<>>} \cup {<<a>> : a \in FileInfos}
    \cup {<<e, a>> : e \in {ErrInfo, Dateless}, a \in FileInfos}

RECURSIVE scanKeys(_, _)
\* for _, key := range keys: the first key whose field is a string that parses
scanKeys(fields, k) ==
    IF k > Len(Keys) THEN [t |-> ZeroTime, found |-> FALSE]
    ELSE IF fields[k].kind = "string" /\ timeParse(fields[k].s).err = Nil
         THEN [t |-> timeParse(fields[k].s).t, found |-> TRUE]
    ELSE scanKeys(fields, k + 1)

RECURSIVE scanInfos(_)
\* for _, fileInfo := range fileInfos
scanInfos(infos) ==
    IF infos = <<>> THEN [t |-> ZeroTime, found |-> FALSE]
    ELSE IF Head(infos).Err THEN scanInfos(Tail(infos))
    ELSE LET r == scanKeys(Head(infos).Fields, 1)
         IN  IF r.found THEN r ELSE scanInfos(Tail(infos))

\* ensureExifTool: s.et is kept, or exiftool.NewExiftool() is tried
ensureExifTool(et, startOK) ==
    IF et # "nil" THEN [et |-> et, err |-> Nil, calls |-> <<>>]
    ELSE IF ~startOK
         THEN [et |-> "nil", err |-> <<"exiftool not found">>,
               calls |-> <<"NewExiftool">>]
    ELSE [et |-> "started", err |-> Nil, calls |-> <<"NewExiftool">>]

\* fallbackExifTool(path): [t, found], the service afterwards, and the calls
\* made to the external tool
fallbackExifTool(et, startOK, infos) ==
    LET e == ensureExifTool(et, startOK)
    IN  IF e.err # Nil
        THEN [t |-> ZeroTime, found |-> FALSE, et |-> e.et, calls |-> e.calls]
        ELSE LET r == scanInfos(infos)
             IN  [t |-> r.t, found |-> r.found, et |-> e.et,
                  calls |-> Append(e.calls, "ExtractMetadata")]

\* GetTime with the external tool consulted after every native error
GetTimeAlwaysFallsBack(get, et, startOK, infos, modTime) ==
    IF get.err = Nil THEN [t |-> get.t, et |-> et, calls |-> <<>>]
    ELSE LET fb == fallbackExifTool(et, startOK, infos)
         IN  IF fb.found THEN [t |-> fb.t, et |-> fb.et, calls |-> fb.calls]
             ELSE [t |-> modTime, et |-> fb.et, calls |-> fb.calls]

\* GetTime(f, info): the time returned, the service afterwards, and the calls
\* made to the external tool
GetTime(get, et, startOK, infos, modTime) ==
    IF get.err = Nil THEN [t |-> get.t, et |-> et, calls |-> <<>>]
    ELSE IF errorsIs(get.err, ErrUnsupported)
         THEN LET fb == fallbackExifTool(et, startOK, infos)
              IN  IF fb.found THEN [t |-> fb.t, et |-> fb.et, calls |-> fb.calls]
                  ELSE [t |-> modTime, et |-> fb.et, calls |-> fb.calls]
    ELSE [t |-> modTime, et |-> et, calls |-> <<>>]

\* the pipeline at rest while GetTime is looked at on its own
PipelineAtRest ==
    /\ rev = RevA
    /\ cfg = [DryRun |-> FALSE, Move |-> FALSE, DeepCheck |-> FALSE,
              Conflict |-> "rename", MinSizeBytes |-> MinSizeBytes]
    /\ srcRoot = SrcDir
    /\ W = EmptyWorld
    /\ start = [fs |-> <<>>, dirs |-> {}]
    /\ env = [faults |-> 0, interrupt |-> FALSE, runs |-> 0]
    /\ run = 1
    /\ jobs = <<>>
    /\ prod = Idle
    /\ cons = "loop"
    /\ cancelled = FALSE
    /\ handled = <<>>
    /\ last = NoCall
    /\ failed = {}
    /\ midWalk = FALSE

\* a call of GetTime: what exifdate.Get returns for the file, the service's
\* et field, whether exiftool can be started, what it extracts for the file,
\* and the file's modification time
InitMeta ==
    /\ PipelineAtRest
    /\ meta \in [pc : {"call"}, get : GetResults, et : {"nil", "started"},
                 startOK : BOOLEAN, infos : ExtractResults, modTime : Dates,
                 out : {[t |-> ZeroTime, et |-> "nil", calls |-> <<>>]}]
    /\ meta.et = "started" => meta.startOK

\* date := metaSvc.GetTime(f, info)
CallGetTime ==
    /\ meta.pc = "call"
    /\ meta' = [meta EXCEPT !.pc = "done",
                            !.out = GetTime(meta.get, meta.et, meta.startOK,
                                            meta.infos, meta.modTime)]
    /\ UNCHANGED <<cfg, rev, srcRoot, W, jobs, prod, cons, cancelled, env,
                   run, start, handled, last, failed, midWalk>>

NextMeta == CallGetTime

SpecMeta == InitMeta /\ [][NextMeta]_vars

\* the external tool was consulted by the call
Consulted == meta.out.calls # <<>>

\* C15: GetTime returns the native time when exifdate.Get succeeds; it calls
\* the external tool if and only if the native error is (or wraps)
\* ErrUnsupported, and then returns the tool's time when it finds one; in
\* every other case it returns the file's modification time, and what it
\* returns is never the zero time.
C15_TimestampFallbackChain ==
    meta.pc = "done" =>
        /\ meta.out.t \in Dates
        /\ meta.get.err = Nil => (meta.out.t = meta.get.t /\ ~Consulted)
        /\ meta.get.err # Nil =>
               /\ Consulted <=> errorsIs(meta.get.err, ErrUnsupported)
               /\ IF Consulted /\ fallbackExifTool(meta.et, meta.startOK, meta.infos).found
                  THEN meta.out.t
                         = fallbackExifTool(meta.et, meta.startOK, meta.infos).t
                  ELSE meta.out.t = meta.modTime

\* the native parser reported a wrapped ErrUnsupported, the tool was started
\* and its second result gave a date other than the modification time
C15_Witness ==
    /\ meta.pc = "done"
    /\ meta.get.err = Wrap("unsupported format: unknown date format", ErrUnsupported)
    /\ meta.out.calls = <<"NewExiftool", "ExtractMetadata">>
    /\ Len(meta.infos) = 2 /\ meta.infos[1].Err
    /\ meta.out.t = Date2 /\ meta.modTime = Date1

\* the native parser found no date: the tool was not consulted
C15_WitnessNoDate ==
    /\ meta.pc = "done"
    /\ meta.get.err = <<"date not set">>
    /\ meta.startOK /\ scanInfos(meta.infos).found
    /\ scanInfos(meta.infos).t # meta.modTime
    /\ meta.out.t = meta.modTime /\ ~Consulted


(* ------------------------------- fairness ------------------------------ *)
\* the steps of the walking goroutine
Producer == WalkStart \/ Visit \/ VisitFail \/ Send \/ SendCancelled \/ WalkEnd

\* what a Dequeue step does to the channel: the consumer receives the job at
\* its head (enabled exactly when Dequeue is)
Receive == cons = "loop" /\ jobs # <<>> /\ jobs' = Tail(jobs)

\* the Go scheduler lets a goroutine that can run take a step: the walk goes
\* on, a job in the channel is received, a closed and empty channel is seen
FairSpec == Spec /\ WF_vars(Producer) /\ WF_jobs(Receive) /\ WF_vars(ReturnNil)

InFlight ==
    [i \in 1..Len(handled) |-> handled[i].job.Path]
    \o [i \in 1..Len(jobs) |-> jobs[i].Path]
    \o (IF prod.pc = "send" THEN <<prod.job.Path>> ELSE <<>>)

\* C18: the jobs handed to importOne, followed by the jobs in the channel and
\* the job about to be sent, are in walk order without repetition: every job
\* is received at most once and jobs are handled in the order they were sent.
C18_SerialFifo ==
    LET walk == LexOrder(rev)
        WalkPos(p) == CHOOSE i \in 1..Len(walk) : walk[i] = p
    IN  \A i, k \in 1..Len(InFlight) :
            i < k => WalkPos(InFlight[i]) < WalkPos(InFlight[k])

\* two jobs wait in the channel while a first one has been handled
C18_Witness ==
    /\ Len(handled) = 1 /\ handled[1].job.Path = SrcA
    /\ Len(jobs) = 2
    /\ jobs[1].Path = SrcB /\ jobs[2].Path = SrcC

\* C19: the channel never holds more than its capacity; while it is full no
\* job is added and none is taken out except by the consumer's receive, and
\* the walk callback stays at its select unless ctx is cancelled, in which
\* case it leaves the walk.
C19_BoundedQueue ==
    /\ [](Len(jobs) <= QueueCap)
    /\ [][Len(jobs) = QueueCap =>
             /\ \/ jobs' = jobs
                \/ jobs' = Tail(jobs) /\ Len(handled') = Len(handled) + 1
             /\ (prod.pc = "send" /\ prod' # prod) =>
                    (cancelled /\ prod'.pc = "closed")]_vars

\* the channel is full and the walk callback waits at its select with a job
C19_Witness ==
    /\ Len(jobs) = QueueCap
    /\ prod.pc = "send"
    /\ ~cancelled


(* -------------------- isFileIdentical, step by step -------------------- *)
\* a look at a file: os.Stat, the read of its header, or its full hash
Look(op, p) == [op |-> op, path |-> p]

\* isFileIdentical with the full hashes computed before anything is compared
isFileIdenticalRunHashFirst(c, fs, job, existingPath) ==
    LET looks == <<Look("os.Stat", existingPath), Look("computeFullHash", job.Path),
                   Look("computeFullHash", existingPath),
                   Look("io.ReadFull", existingPath)>>
    IN  [res |-> isFileIdentical(c, fs, job, existingPath), looks |-> looks]

\* isFileIdentical(job, existingPath): its result and, in order, the looks it
\* takes at the files
isFileIdenticalRun(c, fs, job, existingPath) ==
    LET stat == <<Look("os.Stat", existingPath)>>
        head == Append(stat, Look("io.ReadFull", existingPath))
    IN  IF ~Exists(fs, existingPath) THEN [res |-> FALSE, looks |-> stat]
        ELSE IF Len(fs[existingPath].data) # job.Size
             THEN [res |-> FALSE, looks |-> stat]
        ELSE IF ~areHeadersIdentical(fs, existingPath, job.SourceHead)
             THEN [res |-> FALSE, looks |-> head]
        ELSE IF c.DeepCheck \/ c.Move
             THEN [res |-> areFilesDeepIdentical(fs, job.Path, existingPath),
                   looks |-> head
                       \o <<Look("computeFullHash", job.Path)>>
                       \o (IF Exists(fs, job.Path)
                           THEN <<Look("computeFullHash", existingPath)>>
                           ELSE <<>>)]
        ELSE [res |-> TRUE, looks |-> head]

\* the identity check of the latest importOne call against its destPath
LastCheck == isFileIdenticalRun(cfg, last.pre.fs, last.job, last.dest)

\* the check took a look of kind op
Looked(op) == \E i \in 1..Len(LastCheck.looks) : LastCheck.looks[i].op = op

SameSize == Len(last.pre.fs[last.dest].data) = last.job.Size
SameHead == ReadHead(last.pre.fs[last.dest].data) = last.job.SourceHead

\* C20: for an existing destPath, isFileIdentical answers false on a size
\* mismatch having read no file content; it reads the header only when the
\* sizes are equal and only before any hash; it computes the full hashes
\* exactly when sizes and headers match and the mode is move or deep-check is
\* set, and then answers whether the two contents are equal; otherwise a size
\* and header match answers true.
C20_IdentityCheckOrder ==
    (last.called /\ Exists(last.pre.fs, last.dest)) =>
        /\ LastCheck.res = isFileIdentical(cfg, last.pre.fs, last.job, last.dest)
        /\ LastCheck.looks[1].op = "os.Stat"
        /\ ~SameSize => (LastCheck.res = FALSE /\ Len(LastCheck.looks) = 1)
        /\ Looked("io.ReadFull") <=> SameSize
        /\ Looked("io.ReadFull") => LastCheck.looks[2].op = "io.ReadFull"
        /\ Looked("computeFullHash")
               <=> (SameSize /\ SameHead /\ (cfg.Move \/ cfg.DeepCheck))
        /\ Looked("computeFullHash") =>
               (LastCheck.res <=> last.pre.fs[last.dest].data = SrcData)
        /\ (SameSize /\ ~SameHead) => LastCheck.res = FALSE
        /\ (SameSize /\ SameHead /\ ~cfg.Move /\ ~cfg.DeepCheck) => LastCheck.res = TRUE

\* a move-mode check that passed the size and header tests and failed on the
\* full hashes
C20_Witness ==
    /\ last.called /\ cfg.Move /\ ~cfg.DeepCheck
    /\ Exists(last.pre.fs, last.dest)
    /\ last.job.Path # last.dest
    /\ SameSize /\ SameHead
    /\ Len(LastCheck.looks) = 4
    /\ LastCheck.res = FALSE


(* ------------------------------ statistics ----------------------------- *)
\* the jobs sent into the channel so far in this run
Enqueued == Len(handled) + Len(jobs)

\* C27: in every state FilesProcessed + Duplicates + Errors <= FilesScanned,
\* FilesScanned is the number of jobs enqueued so far or one more, and within
\* a run no counter ever decreases.
C27_StatsConsistent ==
    /\ [](/\ W.stats.FilesProcessed + W.stats.Duplicates + W.stats.Errors
                <= W.stats.FilesScanned
          /\ Enqueued <= W.stats.FilesScanned
          /\ W.stats.FilesScanned <= Enqueued + 1)
    /\ [][run' = run =>
             \A k \in DOMAIN W.stats : W'.stats[k] >= W.stats[k]]_vars

\* a job is counted as scanned and not yet sent while every earlier one has
\* been handled and counted: one as a failure and the others as transfers or
\* duplicates
C27_Witness ==
    /\ prod.pc = "send"
    /\ W.stats.FilesScanned = Enqueued + 1
    /\ W.stats.Errors = 1
    /\ W.stats.FilesProcessed + W.stats.Duplicates + W.stats.Errors
           = W.stats.FilesScanned - 1

\* what the latest importOne call added to counter k
Delta(k) == last.post.stats[k] - last.pre.stats[k]

\* the counters other than those in ks were left alone by the latest call
OnlyChanged(ks) == \A k \in DOMAIN last.pre.stats : k \notin ks => Delta(k) = 0

\* C28: without dry-run, a job handled by importOne changes the counters in
\* exactly one of four ways: FilesProcessed +1 with BytesMoved + size,
\* Duplicates +1, Errors +1, or nothing at all, and nothing at all only when
\* the job is Skipped; a failed transfer, the failure to create the
\* destination directory included, is counted in Errors.
C28_PerJobAccounting ==
    (last.called /\ ~cfg.DryRun) =>
        \/ /\ Delta("FilesProcessed") = 1 /\ Delta("BytesMoved") = last.job.Size
           /\ OnlyChanged({"FilesProcessed", "BytesMoved"})
        \/ /\ Delta("Duplicates") = 1 /\ OnlyChanged({"Duplicates"})
           /\ last.out = "ExactDuplicate"
        \/ /\ Delta("Errors") = 1 /\ OnlyChanged({"Errors"})
        \/ /\ OnlyChanged({}) /\ last.out = "Skipped"


(* ------------------- importOne: the search for a free name ------------- *)
\* the variables of the import pipeline, left alone by the specifications of
\* single functions
pipe == <<cfg, rev, srcRoot, W, jobs, prod, cons, cancelled, env, run, start,
          handled, last, failed, midWalk>>

\* the largest counter suffix probed
MaxProbe == 3

\* what importOne finds at a candidate path: os.Stat reports that it does not
\* exist, it exists and isFileIdentical holds, it exists and isFileIdentical
\* does not hold, or os.Stat fails with another error (no search permission on
\* the directory, name too long), in which case isFileIdentical is false too
StatResults == {"absent", "same", "differs", "denied"}

\* the rename policy after a conflict at the original destination: candidate
\* 0 is hashedDest and candidate n >= 1 is counterDest with counter n
InitProbe ==
    /\ PipelineAtRest
    /\ meta \in [pc : {"hashed"}, rev : {RevA, RevB}, n : {0},
                 stat : [0..MaxProbe -> StatResults], finalDest : {-1}]

\* if _, err := os.Stat(hashedDest); os.IsNotExist(err) {...} else {...}
StatHashed ==
    /\ meta.pc = "hashed"
    /\ meta' = CASE meta.stat[0] = "absent" ->
                      [meta EXCEPT !.pc = "transfer", !.finalDest = 0]
                 [] meta.stat[0] = "same" -> [meta EXCEPT !.pc = "duplicate"]
                 [] OTHER -> [meta EXCEPT !.pc = "counter", !.n = 1]
    /\ UNCHANGED pipe

\* one iteration of for { ... n++ }
StatCounter ==
    /\ meta.pc = "counter"
    /\ \/ /\ meta.stat[meta.n] = "absent"
          /\ meta' = [meta EXCEPT !.pc = "transfer", !.finalDest = meta.n]
       \/ /\ meta.stat[meta.n] = "same" /\ meta.rev = RevB
          /\ meta' = [meta EXCEPT !.pc = "duplicate"]
       \/ /\ meta.stat[meta.n] # "absent"
          /\ ~(meta.stat[meta.n] = "same" /\ meta.rev = RevB)
          /\ meta.n < MaxProbe
          /\ meta' = [meta EXCEPT !.n = @ + 1]
    /\ UNCHANGED pipe

NextProbe == StatHashed \/ StatCounter

SpecProbe == InitProbe /\ [][NextProbe]_vars

DigitVal ==
    ("0" :> 0) @@ ("1" :> 1) @@ ("2" :> 2) @@ ("3" :> 3) @@ ("4" :> 4) @@
    ("5" :> 5) @@ ("6" :> 6) @@ ("7" :> 7) @@ ("8" :> 8) @@ ("9" :> 9)

\* time.isDigit(s, i), with i counted from 1
isDigit(s, i) == i <= Len(s) /\ s[i] \in DOMAIN DigitVal

\* strings.HasPrefix
HasPrefix(s, p) == Len(s) >= Len(p) /\ SubSeq(s, 1, Len(p)) = p

\* the rest of s after its first k characters
Drop(s, k) == SubSeq(s, k + 1, Len(s))

\* time.getnum: one or two digits, exactly two when fixed
getnum(s, fixed) ==
    IF ~isDigit(s, 1) THEN [ok |-> FALSE, v |-> 0, rest |-> s]
    ELSE IF ~isDigit(s, 2)
         THEN IF fixed THEN [ok |-> FALSE, v |-> 0, rest |-> s]
              ELSE [ok |-> TRUE, v |-> DigitVal[s[1]], rest |-> Drop(s, 1)]
         ELSE [ok |-> TRUE, v |-> 10 * DigitVal[s[1]] + DigitVal[s[2]],
               rest |-> Drop(s, 2)]

\* the digits that follow a '.' or ',' after the seconds are consumed as a
\* fraction even when the layout has none
RECURSIVE SkipDigits(_)
SkipDigits(s) == IF isDigit(s, 1) THEN SkipDigits(Drop(s, 1)) ELSE s

SkipFraction(s) ==
    IF Len(s) >= 2 /\ s[1] \in {".", ","} /\ isDigit(s, 2)
    THEN SkipDigits(Drop(s, 1)) ELSE s

\* time.daysIn
daysIn(month, year) ==
    IF month = 2
    THEN IF year % 4 = 0 /\ (year % 100 # 0 \/ year % 400 = 0) THEN 29 ELSE 28
    ELSE IF month \in {4, 6, 9, 11} THEN 30 ELSE 31

\* the fields of a parsed time; off is the zone offset in minutes
NoTime == [Y |-> 0, M |-> 0, D |-> 0, h |-> 0, m |-> 0, s |-> 0, off |-> 0]

Fail == [ok |-> FALSE, t |-> NoTime]

\* time.Parse(layout, value): the layout is a sequence of chunks, a standard
\* chunk ("2006", "01", "02", "15", "04", "05", "-07:00") or a literal
\* character
RECURSIVE timeParseLayout(_, _, _)
timeParseLayout(layout, value, t) ==
    IF layout = <<>>
    THEN IF value # <<>> THEN Fail                       \* extra text
         ELSE IF t.D < 1 \/ t.D > daysIn(t.M, t.Y) THEN Fail
         ELSE [ok |-> TRUE, t |-> t]
    ELSE
    LET std == Head(layout)
        rest == Tail(layout)
        two == getnum(value, TRUE)
        any == getnum(value, FALSE)
    IN  CASE std = "2006" ->
               IF Len(value) >= 4 /\ \A i \in 1..4 : isDigit(value, i)
               THEN timeParseLayout(rest, Drop(value, 4),
                        [t EXCEPT !.Y = 1000 * DigitVal[value[1]]
                                        + 100 * DigitVal[value[2]]
                                        + 10 * DigitVal[value[3]]
                                        + DigitVal[value[4]]])
               ELSE Fail
          [] std = "01" ->
               IF two.ok /\ two.v >= 1 /\ two.v <= 12
               THEN timeParseLayout(rest, two.rest, [t EXCEPT !.M = two.v])
               ELSE Fail
          [] std = "02" ->
               IF two.ok
               THEN timeParseLayout(rest, two.rest, [t EXCEPT !.D = two.v])
               ELSE Fail
          [] std = "15" ->
               IF any.ok /\ any.v < 24
               THEN timeParseLayout(rest, any.rest, [t EXCEPT !.h = any.v])
               ELSE Fail
          [] std = "04" ->
               IF two.ok /\ two.v < 60
               THEN timeParseLayout(rest, two.rest, [t EXCEPT !.m = two.v])
               ELSE Fail
          [] std = "05" ->
               IF two.ok /\ two.v < 60
               THEN timeParseLayout(rest, SkipFraction(two.rest),
                                    [t EXCEPT !.s = two.v])
               ELSE Fail
          [] std = "-07:00" ->
               LET hh == getnum(Drop(value, 1), TRUE)
                   mm == getnum(Drop(value, 4), TRUE)
               IN  IF /\ Len(value) >= 6 /\ value[1] \in {"+", "-"}
                      /\ value[4] = ":" /\ hh.ok /\ mm.ok
                      /\ hh.v <= 24 /\ mm.v <= 60
                   THEN timeParseLayout(rest, Drop(value, 6),
                            [t EXCEPT !.off = IF value[1] = "-"
                                              THEN 0 - (60 * hh.v + mm.v)
                                              ELSE 60 * hh.v + mm.v])
                   ELSE Fail
          [] OTHER ->
               IF value # <<>> /\ value[1] = std
               THEN timeParseLayout(rest, Drop(value, 1), t)
               ELSE Fail

ColonDate == <<"2006", ":", "01", ":", "02">>
DashDate == <<"2006", "-", "01", "-", "02">>
Clock == <<"15", ":", "04", ":", "05">>

\* nativeLayouts; in "2006:01:02 15:04:05+07:00" the text "+07:00" is no
\* standard chunk of package time and stands for itself
nativeLayouts ==
    << ColonDate \o <<" ">> \o Clock,
       ColonDate \o <<" ">> \o Clock \o <<"-07:00">>,
       ColonDate \o <<" ">> \o Clock \o <<"+", "0", "7", ":", "0", "0">>,
       DashDate \o <<" ">> \o Clock,
       DashDate \o <<" ">> \o Clock \o <<"-07:00">>,
       DashDate \o <<"T">> \o Clock >>

ZeroDatePrefix == <<"0", "0", "0", "0", ":", "0", "0", ":", "0", "0">>
BlankDatePrefix == <<" ", " ", " ", " ", ":", " ", " ", ":", " ", " ">>

ErrDateNotSet == <<"date not set">>

\* for _, layout := range nativeLayouts: the first layout that parses
RECURSIVE tryLayouts(_, _)
tryLayouts(s, i) ==
    IF i > Len(nativeLayouts)
    THEN [t |-> NoTime, err |-> Wrap("unknown date format", ErrUnsupported)]
    ELSE LET r == timeParseLayout(nativeLayouts[i], s, NoTime)
         IN  IF r.ok THEN [t |-> r.t, err |-> Nil] ELSE tryLayouts(s, i + 1)

\* parseExifTime
parseExifTime(s) ==
    IF Len(s) < 10 \/ HasPrefix(s, ZeroDatePrefix)
                   \/ HasPrefix(s, BlankDatePrefix)
    THEN [t |-> NoTime, err |-> ErrDateNotSet]
    ELSE tryLayouts(s, 1)

\* the date strings a tag may hold, put together from a date, a separator, a
\* time of day and a zone
DateParts ==
    {<<"2", "0", "2", "3", ":", "0", "5", ":", "1", "0">>,
     <<"0", "0", "0", "0", ":", "0", "0", ":", "0", "0">>,
     <<" ", " ", " ", " ", ":", " ", " ", ":", " ", " ">>,
     <<"2", "0", "2", "3", "-", "0", "5", "-", "1", "0">>,
     <<"2", "0", "2", "3", "/", "0", "5", "/", "1", "0">>,
     <<"2", "0", "2", "3", ":", "1", "3", ":", "1", "0">>,
     <<"2", "0", "2", "3", ":", "0", "2", ":", "3", "0">>,
     <<"2", "0", "2", "3", ":", "0", "5">>,
     <<>>,
     <<" ", " ", " ", " ", " ", " ", " ", " ", " ", " ">>}
SepParts ==
    {<<" ">>,
     <<"T">>,
     <<>>}
ClockParts ==
    {<<"1", "4", ":", "2", "2", ":", "3", "1">>,
     <<"7", ":", "0", "5", ":", "0", "9">>,
     <<"2", "5", ":", "0", "0", ":", "0", "0">>,
     <<"1", "4", ":", "2", "2">>,
     <<>>,
     <<"1", "4", ":", "2", "2", ":", "3", "1", ".", "5">>}
ZoneParts ==
    {<<>>,
     <<"+", "0", "2", ":", "0", "0">>,
     <<"-", "0", "7", ":", "0", "0">>,
     <<"Z">>}

DateStrings ==
    {d \o p \o c \o z : d \in DateParts, p \in SepParts, c \in ClockParts,
                         z \in ZoneParts}

\* a call of parseExifTime
InitDate ==
    /\ PipelineAtRest
    /\ meta \in [pc : {"call"}, s : DateStrings,
                 out : {[t |-> NoTime, err |-> Nil]}]

CallParseExifTime ==
    /\ meta.pc = "call"
    /\ meta' = [meta EXCEPT !.pc = "done", !.out = parseExifTime(meta.s)]
    /\ UNCHANGED pipe

NextDate == CallParseExifTime

SpecDate == InitDate /\ [][NextDate]_vars

\* the string is all-zero or all-blank: it starts with the date 0000:00:00 or
\* with a date whose digits are blanks, or it holds nothing but blanks
DateUnset(s) ==
    \/ HasPrefix(s, ZeroDatePrefix)
    \/ HasPrefix(s, BlankDatePrefix)
    \/ \A i \in 1..Len(s) : s[i] = " "

\* the string has one of the accepted layouts
Accepted(s) ==
    \E i \in 1..Len(nativeLayouts) :
        timeParseLayout(nativeLayouts[i], s, NoTime).ok

\* C22: a date string that is all-zero or all-blank yields "date not set",
\* which is not Unsupported; a non-empty string that matches none of the
\* accepted layouts yields Unsupported; a string that matches an accepted
\* layout yields its timestamp and no error.
C22_DateStringClassification ==
    meta.pc = "done" =>
        /\ DateUnset(meta.s) =>
               (meta.out.err = ErrDateNotSet
                /\ ~errorsIs(meta.out.err, ErrUnsupported))
        /\ (meta.s # <<>> /\ ~DateUnset(meta.s) /\ ~Accepted(meta.s)) =>
               errorsIs(meta.out.err, ErrUnsupported)
        /\ (~DateUnset(meta.s) /\ Accepted(meta.s)) =>
               (meta.out.err = Nil /\ meta.out.t # NoTime)


(* --------------------------- exifdate: ParseDate ----------------------- *)
TagExifOffset == 34665          \* 0x8769
TagDateTime == 306              \* 0x0132
TagDateTimeOriginal == 36867    \* 0x9003

\* the ASCII codes of the characters that occur in the date strings
AsciiOf ==
    [c \in DOMAIN DigitVal |-> 48 + DigitVal[c]] @@
    (" " :> 32) @@ ("+" :> 43) @@ ("-" :> 45) @@ ("." :> 46) @@ ("/" :> 47) @@
    (":" :> 58) @@ ("T" :> 84) @@ ("Z" :> 90)

\* string(raw), one byte
Chr(b) == IF \E c \in DOMAIN AsciiOf : AsciiOf[c] = b
          THEN CHOOSE c \in DOMAIN AsciiOf : AsciiOf[c] = b
          ELSE "?"

\* order.Uint16(data[off : off+2]) and order.Uint32(data[off : off+4]); off
\* counts from 0 as in the source, the sequences of the model from 1
Uint16(order, data, off) ==
    IF order = "II" THEN data[off + 1] + 256 * data[off + 2]
    ELSE 256 * data[off + 1] + data[off + 2]

Uint32(order, data, off) ==
    IF order = "II"
    THEN data[off + 1] + 256 * data[off + 2] + 65536 * data[off + 3]
         + 16777216 * data[off + 4]
    ELSE 16777216 * data[off + 1] + 65536 * data[off + 2]
         + 256 * data[off + 3] + data[off + 4]

\* iterateTags: the calls of fn, in order, and the error
iterateTags(data, dirOffset, order) ==
    IF dirOffset + 2 > Len(data)
    THEN [err |-> <<"offset out of bounds">>, visits |-> <<>>]
    ELSE LET count == Uint16(order, data, dirOffset)
             fit == Min(count, (Len(data) - dirOffset - 2) \div 12)
         IN  [err |-> IF fit < count THEN <<"tag out of bounds">> ELSE Nil,
              visits |-> [i \in 1..fit |->
                  LET current == dirOffset + 2 + 12 * (i - 1)
                  IN  [tag |-> Uint16(order, data, current),
                       offset |-> current,
                       count |-> Uint32(order, data, current + 4)]]]

\* the bytes bytes.TrimSpace removes
AsciiSpace == {9, 10, 11, 12, 13, 32}

RECURSIVE TrimLeft(_)
TrimLeft(raw) ==
    IF raw # <<>> /\ Head(raw) \in AsciiSpace THEN TrimLeft(Tail(raw)) ELSE raw

RECURSIVE TrimRight(_)
TrimRight(raw) ==
    IF raw # <<>> /\ raw[Len(raw)] \in AsciiSpace
    THEN TrimRight(SubSeq(raw, 1, Len(raw) - 1)) ELSE raw

TrimSpace(raw) == TrimRight(TrimLeft(raw))

\* raw[:idx] for the first zero byte of raw, raw itself when it has none
CutAtNul(raw) ==
    IF \E i \in 1..Len(raw) : raw[i] = 0
    THEN SubSeq(raw, 1, (CHOOSE i \in 1..Len(raw) :
                            raw[i] = 0 /\ \A j \in 1..(i - 1) : raw[j] # 0) - 1)
    ELSE raw

\* extractString
extractString(data, tagStartOffset, count, order) ==
    LET valueOffset == tagStartOffset + 8
        strStart == IF count <= 4 THEN valueOffset
                    ELSE Uint32(order, data, valueOffset)
    IN  IF strStart + count > Len(data) THEN <<>>
        ELSE LET raw == TrimSpace(CutAtNul(
                            SubSeq(data, strStart + 1, strStart + count)))
             IN  [i \in 1..Len(raw) |-> Chr(raw[i])]

\* the string of the last visit of the tag, "" when the tag was not visited
LastString(data, order, visits, tag) ==
    LET hits == {i \in 1..Len(visits) : visits[i].tag = tag}
    IN  IF hits = {} THEN <<>>
        ELSE LET v == visits[CHOOSE i \in hits : \A j \in hits : j <= i]
             IN  extractString(data, v.offset, v.count, order)

\* the sub-IFD pointer of the last visit of TagExifOffset, 0 without one
LastPointer(data, order, visits) ==
    LET hits == {i \in 1..Len(visits) : visits[i].tag = TagExifOffset}
    IN  IF hits = {} THEN 0
        ELSE LET v == visits[CHOOSE i \in hits : \A j \in hits : j <= i]
             IN  Uint32(order, data, v.offset + 8)

ErrNoDateTag == <<"no date tag found">>

Unsupported(msg) == [t |-> NoTime, err |-> Wrap(msg, ErrUnsupported)]

\* ParseDate that prefers the DateTime of IFD0
ParseDateFallbackFirst(data) ==
    IF Len(data) < 8 THEN Unsupported("data too short")
    ELSE IF ~(data[1] = data[2] /\ data[1] \in {73, 77})
    THEN Unsupported("invalid tiff header")
    ELSE
    LET order == IF data[1] = 73 THEN "II" ELSE "MM"
        pass1 == iterateTags(data, Uint32(order, data, 4), order)
        exifOffset == LastPointer(data, order, pass1.visits)
        fallbackDateStr == LastString(data, order, pass1.visits, TagDateTime)
        pass2 == iterateTags(data, exifOffset, order)
        originalDateStr ==
            LastString(data, order, pass2.visits, TagDateTimeOriginal)
    IN  IF Uint16(order, data, 2) # 42 THEN Unsupported("invalid magic number")
        ELSE IF pass1.err # Nil THEN Unsupported("tiff structure corruption")
        ELSE IF fallbackDateStr # <<>> THEN parseExifTime(fallbackDateStr)
        ELSE IF exifOffset > 0 /\ originalDateStr # <<>>
        THEN parseExifTime(originalDateStr)
        ELSE [t |-> NoTime, err |-> ErrNoDateTag]
ParseDate(data) ==
    IF Len(data) < 8 THEN Unsupported("data too short")
    ELSE IF ~(data[1] = data[2] /\ data[1] \in {73, 77})
    THEN Unsupported("invalid tiff header")
    ELSE
    LET order == IF data[1] = 73 THEN "II" ELSE "MM"
        pass1 == iterateTags(data, Uint32(order, data, 4), order)
        exifOffset == LastPointer(data, order, pass1.visits)
        fallbackDateStr == LastString(data, order, pass1.visits, TagDateTime)
        pass2 == iterateTags(data, exifOffset, order)
        originalDateStr ==
            LastString(data, order, pass2.visits, TagDateTimeOriginal)
    IN  IF Uint16(order, data, 2) # 42 THEN Unsupported("invalid magic number")
        ELSE IF pass1.err # Nil THEN Unsupported("tiff structure corruption")
        ELSE IF exifOffset > 0 /\ originalDateStr # <<>>
        THEN parseExifTime(originalDateStr)
        ELSE IF fallbackDateStr # <<>> THEN parseExifTime(fallbackDateStr)
        ELSE [t |-> NoTime, err |-> ErrNoDateTag]

\* the most entries a directory of the checked blobs has
MaxEntries == 2

\* the strings of the checked blobs: two dates, the date of a clock that was
\* never set, and blanks only
DateA == <<"2", "0", "2", "3", ":", "0", "5", ":", "1", "0", " ", "1", "4", ":", "2", "2", ":", "3", "1">>
DateB == <<"2", "0", "2", "1", ":", "0", "1", ":", "0", "2", " ", "0", "3", ":", "0", "4", ":", "0", "5">>
DateZero == <<"0", "0", "0", "0", ":", "0", "0", ":", "0", "0", " ", "0", "0", ":", "0", "0", ":", "0", "0">>
Blanks == <<" ", " ", " ">>

\* a directory entry of a checked blob: a tag with its string, or the pointer
\* to the Exif sub-IFD
Entry(tag, str) == [tag |-> tag, str |-> str]
Pointer == Entry(TagExifOffset, <<>>)
TagMake == 271

Ifd0Entries ==
    {Entry(TagDateTime, DateA), Entry(TagDateTime, Blanks), Pointer,
     Entry(TagMake, DateB)}

SubEntries ==
    {Entry(TagDateTimeOriginal, DateB), Entry(TagDateTimeOriginal, Blanks),
     Entry(TagDateTimeOriginal, DateZero), Entry(TagMake, DateA)}

SeqsUpTo(S, n) == UNION {[1..k -> S] : k \in 0..n}

\* binary.ByteOrder.PutUint16 / PutUint32 for values below 65536
Enc16(order, v) ==
    IF order = "II" THEN <<v % 256, v \div 256>> ELSE <<v \div 256, v % 256>>

Enc32(order, v) ==
    IF order = "II" THEN Enc16(order, v) \o <<0, 0>>
    ELSE <<0, 0>> \o Enc16(order, v)

Pad(bytes, n) == bytes \o [i \in 1..(n - Len(bytes)) |-> 0]

BytesOf(str) == [i \in 1..Len(str) |-> AsciiOf[str[i]]]

\* the twelve bytes of an entry: tag, type, count, and the value or its offset
EncodeEntry(order, e, slot, subOffset) ==
    Enc16(order, e.tag) \o
    (IF e = Pointer
     THEN Enc16(order, 4) \o Enc32(order, 1) \o Enc32(order, subOffset)
     ELSE Enc16(order, 2) \o Enc32(order, Len(e.str) + 1) \o
          (IF Len(e.str) + 1 <= 4 THEN Pad(BytesOf(e.str), 4)
           ELSE Enc32(order, slot)))

\* a TIFF blob: the header, IFD0 at offset 8, the Exif sub-IFD behind it, and
\* one slot of 20 bytes per entry for the strings
EncodeTiff(d) ==
    LET n0 == Len(d.ifd0)
        n1 == Len(d.sub)
        subOffset == 8 + 2 + 12 * n0 + 4
        strOffset == subOffset + 2 + 12 * n1 + 4
        all == d.ifd0 \o d.sub
        slot(g) == strOffset + 20 * (g - 1)
        entries == [g \in 1..(n0 + n1) |->
                       EncodeEntry(d.order, all[g], slot(g), subOffset)]
        slots == [g \in 1..(n0 + n1) |-> Pad(BytesOf(all[g].str), 20)]
        mark == IF d.hdr = "badorder" THEN <<73, 77>>
                ELSE IF d.order = "II" THEN <<73, 73>> ELSE <<77, 77>>
        magic == IF d.hdr = "badmagic" THEN 43 ELSE 42
    IN  mark \o Enc16(d.order, magic) \o Enc32(d.order, 8) \o
        Enc16(d.order, n0) \o Concat(entries, 1, n0) \o <<0, 0, 0, 0>> \o
        Enc16(d.order, n1) \o Concat(entries, n0 + 1, n0 + n1) \o
        <<0, 0, 0, 0>> \o Concat(slots, 1, n0 + n1)

\* a call of ParseDate on a blob
InitTiff ==
    /\ PipelineAtRest
    /\ \E d \in [order : {"II", "MM"}, hdr : {"ok", "badorder", "badmagic"},
                  ifd0 : SeqsUpTo(Ifd0Entries, MaxEntries),
                  sub : SeqsUpTo(SubEntries, MaxEntries)] :
           meta = [pc |-> "call", d |-> d, data |-> EncodeTiff(d),
                   out |-> [t |-> NoTime, err |-> Nil]]

CallParseDate ==
    /\ meta.pc = "call"
    /\ meta' = [meta EXCEPT !.pc = "done", !.out = ParseDate(meta.data)]
    /\ UNCHANGED pipe

NextTiff == CallParseDate

SpecTiff == InitTiff /\ [][NextTiff]_vars

\* the strings the entries with the tag hold in a directory, in order
StringsOf(dir, tag) ==
    LET idx == {i \in 1..Len(dir) : dir[i].tag = tag}
    IN  [k \in 1..Cardinality(idx) |->
            dir[CHOOSE i \in idx :
                    Cardinality({j \in idx : j <= i}) = k].str]

\* the string holds something besides blanks
NonEmpty(str) == \E i \in 1..Len(str) : str[i] # " "

\* the blob is a well-formed TIFF whose IFD0 points to the Exif sub-IFD
HasSubIfd == \E i \in 1..Len(meta.d.ifd0) : meta.d.ifd0[i] = Pointer

Originals == IF HasSubIfd THEN StringsOf(meta.d.sub, TagDateTimeOriginal)
             ELSE <<>>

Fallbacks == StringsOf(meta.d.ifd0, TagDateTime)

\* C26: when the sub-IFD contains a non-empty DateTimeOriginal the result is
\* the parse of that string alone, even if IFD0 has a DateTime; the DateTime
\* of IFD0 is used only when the sub-IFD has no non-empty DateTimeOriginal;
\* with neither the result is the no-date-tag condition, which is not
\* Unsupported.
C26_DateTagPrecedence ==
    (meta.pc = "done" /\ meta.d.hdr = "ok") =>
        LET hasOrig == \E i \in 1..Len(Originals) : NonEmpty(Originals[i])
            hasFall == \E i \in 1..Len(Fallbacks) : NonEmpty(Fallbacks[i])
        IN  /\ hasOrig =>
                   \E i \in 1..Len(Originals) :
                       /\ NonEmpty(Originals[i])
                       /\ meta.out = parseExifTime(Originals[i])
            /\ (~hasOrig /\ hasFall) =>
                   \E i \in 1..Len(Fallbacks) :
                       /\ NonEmpty(Fallbacks[i])
                       /\ meta.out = parseExifTime(Fallbacks[i])
            /\ (~hasOrig /\ ~hasFall) =>
                   (meta.out.err = ErrNoDateTag
                    /\ ~errorsIs(meta.out.err, ErrUnsupported))

\* C26 (amended): each tag counts with its last entry in its directory. When
\* the last DateTimeOriginal of the sub-IFD is non-empty the result is the
\* parse of that string alone; otherwise, when the last DateTime of IFD0 is
\* non-empty, the result is the parse of that string; otherwise the result
\* is the no-date-tag condition, which is not Unsupported.
C26_DateTagPrecedenceAmended ==
    (meta.pc = "done" /\ meta.d.hdr = "ok") =>
        LET orig == IF Originals = <<>> THEN <<>> ELSE Originals[Len(Originals)]
            fall == IF Fallbacks = <<>> THEN <<>> ELSE Fallbacks[Len(Fallbacks)]
        IN  meta.out = IF NonEmpty(orig) THEN parseExifTime(orig)
                       ELSE IF NonEmpty(fall) THEN parseExifTime(fall)
                       ELSE [t |-> NoTime, err |-> ErrNoDateTag]

\* IFD0 has a DateTime and points to a sub-IFD with a DateTimeOriginal of
\* another date, which is the date returned
C26_Witness ==
    /\ meta.pc = "done" /\ meta.d.hdr = "ok" /\ HasSubIfd
    /\ Fallbacks = <<DateA>> /\ Originals = <<DateB>>
    /\ meta.out = parseExifTime(DateB) /\ meta.out.err = Nil

\* neither tag holds a date
C26_WitnessNoDate ==
    /\ meta.pc = "done" /\ meta.d.hdr = "ok" /\ HasSubIfd
    /\ Fallbacks = <<Blanks>> /\ Originals = <<Blanks>>
    /\ meta.out.err = ErrNoDateTag


(* --------------------------- heic: readItemData ------------------------ *)
\* uint64 offsets are kept modulo WordMod, and int64(x) is negative from
\* WordMod \div 2 on
WordMod == 16

MaxLocs == 2
MaxExtents == 2

\* the bytes of the file read by readItemData
ItemFile == <<10, 11, 12, 13, 14, 15>>

\* the extents and item locations parseIloc may hand over
Extents == {[offset |-> 0, length |-> 2], [offset |-> 3, length |-> 0],
            [offset |-> 5, length |-> 2]}

ItemLocations ==
    [constructionMethod : {0, 1}, baseOffset : {0, WordMod - 2},
     extents : SeqsUpTo(Extents, MaxExtents)]

ErrEOF == <<"EOF">>
ErrSeek == <<"invalid argument">>

\* the (method, baseOffset, extent) triples in the order of the two loops
RECURSIVE FlatExtents(_)
FlatExtents(locs) ==
    IF locs = <<>> THEN <<>>
    ELSE [e \in 1..Len(Head(locs).extents) |->
             [constructionMethod |-> Head(locs).constructionMethod,
              baseOffset |-> Head(locs).baseOffset,
              ext |-> Head(locs).extents[e]]] \o FlatExtents(Tail(locs))

\* finalOffset as a uint64, before the conversion to int64
finalOffset(x, idatOffset) ==
    IF x.constructionMethod = 1
    THEN (idatOffset + x.baseOffset + x.ext.offset) % WordMod
    ELSE (x.baseOffset + x.ext.offset) % WordMod

\* the body of the inner loop, over the remaining extents
RECURSIVE readExtents(_, _, _, _)
readExtents(data, flat, idatOffset, out) ==
    IF flat = <<>> THEN [blob |-> out, err |-> Nil]
    ELSE
    LET x == Head(flat)
        final == finalOffset(x, idatOffset)
    IN  IF x.constructionMethod = 1 /\ idatOffset = 0
        THEN [blob |-> <<>>,
              err |-> Wrap("item uses idat-relative offset but idat box not found",
                           ErrUnsupported)]
        ELSE IF x.ext.length = 0
        THEN readExtents(data, Tail(flat), idatOffset, out)
        ELSE IF final >= WordMod \div 2          \* r.Seek to a negative offset
        THEN [blob |-> <<>>, err |-> ErrSeek]
        ELSE IF final + x.ext.length > Len(data)      \* io.CopyN runs into EOF
        THEN [blob |-> <<>>, err |-> ErrEOF]
        ELSE readExtents(data, Tail(flat), idatOffset,
                         out \o SubSeq(data, final + 1, final + x.ext.length))

\* readItemData
readItemData(data, locs, idatOffset) ==
    readExtents(data, FlatExtents(locs), idatOffset, <<>>)

\* a call of readItemData: the locations of the Exif item and the data offset
\* of the idat box, 0 when none was found
InitItem ==
    /\ PipelineAtRest
    /\ meta \in [pc : {"call"}, locs : SeqsUpTo(ItemLocations, MaxLocs),
                 idatOffset : {0, 1},
                 out : {[blob |-> <<>>, err |-> Nil]}]

CallReadItemData ==
    /\ meta.pc = "call"
    /\ meta' = [meta EXCEPT !.pc = "done",
                   !.out = readItemData(ItemFile, meta.locs, meta.idatOffset)]
    /\ UNCHANGED pipe

NextItem == CallReadItemData

SpecItem == InitItem /\ [][NextItem]_vars

\* the declared extents, in order
Declared == FlatExtents(meta.locs)

\* extent i is idat-relative and there is no idat box
MissingIdat(i) == Declared[i].constructionMethod = 1 /\ meta.idatOffset = 0

\* where extent i starts: baseOffset + extentOffset, plus the idat data start
\* when it is idat-relative
StartOf(i) ==
    Declared[i].baseOffset + Declared[i].ext.offset
      + (IF Declared[i].constructionMethod = 1 THEN meta.idatOffset ELSE 0)

\* the bytes of the file in [from, from + n)
BytesAt(from, n) == SubSeq(ItemFile, from + 1, from + n)

\* C25: the payload returned equals the concatenation, in declared extent
\* order, of the bytes at baseOffset + extentOffset (plus the idat data start
\* for idat-relative extents) of length extentLength, zero-length extents
\* contributing nothing; if any extent is idat-relative and no idat box was
\* located the result is Unsupported.
C25_ItemAssembly ==
    meta.pc = "done" =>
        /\ (\E i \in 1..Len(Declared) : MissingIdat(i)) =>
               errorsIs(meta.out.err, ErrUnsupported)
        /\ meta.out.err = Nil =>
               /\ \A i \in 1..Len(Declared) :
                      Declared[i].ext.length > 0 =>
                          StartOf(i) + Declared[i].ext.length <= Len(ItemFile)
               /\ meta.out.blob =
                      Concat([i \in 1..Len(Declared) |->
                                 BytesAt(StartOf(i), Declared[i].ext.length)],
                             1, Len(Declared))

\* extent i cannot be read: it is not empty and its start, taken modulo the
\* width of the offsets, is negative as a signed offset or its end lies
\* behind the end of the file
Unreadable(i) ==
    /\ Declared[i].ext.length > 0
    /\ \/ StartOf(i) % WordMod >= WordMod \div 2
       \/ (StartOf(i) % WordMod) + Declared[i].ext.length > Len(ItemFile)

\* What readItemData does: the extents are taken in declared order with their
\* start computed modulo the width of the offsets. The first extent that is
\* idat-relative without an idat box, or that cannot be read, ends the call:
\* with Unsupported in the first case and with the untyped I/O error in the
\* second. When there is no such extent the payload is the concatenation of
\* the bytes of all extents, zero-length extents contributing nothing.
ItemAssemblyAsCoded ==
    meta.pc = "done" =>
        LET bad == {i \in 1..Len(Declared) : MissingIdat(i) \/ Unreadable(i)}
        IN  IF bad = {}
            THEN /\ meta.out.err = Nil
                 /\ meta.out.blob =
                      Concat([i \in 1..Len(Declared) |->
                                 BytesAt(StartOf(i) % WordMod,
                                         Declared[i].ext.length)],
                             1, Len(Declared))
            ELSE LET first == CHOOSE i \in bad : \A j \in bad : i <= j
                 IN  /\ meta.out.blob = <<>>
                     /\ meta.out.err # Nil
                     /\ errorsIs(meta.out.err, ErrUnsupported)
                          <=> MissingIdat(first)

\* two idat-relative locations with an idat box: the payload is put together
\* from the bytes behind the idat data start, the empty extent adding nothing
ItemFromIdat ==
    /\ meta.pc = "done" /\ meta.idatOffset = 1
    /\ Len(meta.locs) = 2
    /\ \A i \in 1..Len(Declared) : Declared[i].constructionMethod = 1
    /\ \E i \in 1..Len(Declared) : Declared[i].ext.length = 0
    /\ meta.out.err = Nil
    /\ meta.out.blob = <<11, 12, 11, 12>>

\* an idat-relative extent without an idat box
ItemWithoutIdat ==
    /\ meta.pc = "done"
    /\ \E i \in 1..Len(Declared) : MissingIdat(i)
    /\ errorsIs(meta.out.err, ErrUnsupported)


(* ----------------------------- heic: scanBoxes ------------------------- *)
\* uint64 positions and sizes of boxes are kept modulo PosMod, and int64(x)
\* is negative from PosMod \div 2 on
PosMod == 64

MaxBoxes == 2

TypFtyp == <<102, 116, 121, 112>>     \* "ftyp"
TypMeta == <<109, 101, 116, 97>>      \* "meta"

ErrUnexpectedEOF == <<"unexpected EOF">>

\* io.ReadFull(r, buf) for n bytes at offset off: io.EOF when nothing is
\* left, io.ErrUnexpectedEOF when fewer than n bytes are left
ReadFull(data, off, n) ==
    IF off >= Len(data) THEN [err |-> ErrEOF, buf |-> <<>>]
    ELSE IF off + n > Len(data) THEN [err |-> ErrUnexpectedEOF, buf |-> <<>>]
    ELSE [err |-> Nil, buf |-> SubSeq(data, off + 1, off + n)]

\* binary.BigEndian.Uint64 in the width of the model, which the low-order
\* word of the checked sizes covers
Uint64(buf) == Uint32("MM", buf, 4) % PosMod

NoBox == [offset |-> 0, size |-> 0, typ |-> <<>>, dataOffset |-> 0,
          dataSize |-> 0]

\* readBoxHeader
readBoxHeader(data, offset) ==
    LET head == ReadFull(data, offset, 8)
        size32 == Uint32("MM", head.buf, 0)
        large == ReadFull(data, offset + 8, 8)
        headerSize == IF size32 = 1 THEN 16 ELSE 8
        size == IF size32 = 1 THEN Uint64(large.buf)
                ELSE IF size32 = 0 THEN (Len(data) + PosMod - offset) % PosMod
                ELSE size32 % PosMod
    IN  IF offset >= PosMod \div 2 THEN [err |-> ErrSeek, bh |-> NoBox]
        ELSE IF head.err # Nil THEN [err |-> head.err, bh |-> NoBox]
        ELSE IF size32 = 1 /\ large.err # Nil
        THEN [err |-> large.err, bh |-> NoBox]
        ELSE IF size < headerSize
        THEN [err |-> <<"box size is smaller than header size">>,
              bh |-> NoBox]
        ELSE [err |-> Nil,
              bh |-> [offset |-> offset, size |-> size,
                      typ |-> SubSeq(head.buf, 5, 8),
                      dataOffset |-> (offset + headerSize) % PosMod,
                      dataSize |-> size - headerSize]]

\* the header of a box as it stands in a file: the 32-bit size and the type,
\* followed by the 64-bit size when the 32-bit size is 1
EncodeBox(b) ==
    <<0, 0, 0, b.size32>> \o b.typ \o
    (IF b.size32 = 1 THEN <<0, 0, 0, 0, 0, 0, 0, b.large>> ELSE <<>>) \o
    [i \in 1..b.pad |-> 0]

\* the boxes of the checked files: sizes below, at and above the size of the
\* header, the size 0 of a box that extends to the end of the file, and
\* 64-bit sizes up to the largest
BoxShapes ==
    [size32 : {0, 4, 8, 16}, large : {0}, typ : {TypFtyp, TypMeta},
     pad : {0, 8}]
    \cup [size32 : {1}, large : {8, 16, 24, PosMod - 8}, typ : {TypFtyp},
          pad : {0, 8}]

\* findBox(r, start, end, "meta") about to enter the loop of scanBoxes
InitScan ==
    /\ PipelineAtRest
    /\ \E boxes \in SeqsUpTo(BoxShapes, MaxBoxes), whole \in BOOLEAN :
         LET data == Concat([i \in 1..Len(boxes) |-> EncodeBox(boxes[i])],
                            1, Len(boxes))
         IN  meta = [pc |-> "loop", data |-> data, pos |-> 0,
                     end |-> IF whole THEN PosMod - 1 ELSE Len(data),
                     found |-> FALSE, result |-> NoBox, err |-> Nil]

\* one iteration of for pos < end { ... }, with the callback of findBox
ScanStep ==
    /\ meta.pc = "loop"
    /\ LET r == readBoxHeader(meta.data, meta.pos)
       IN  meta' =
             IF ~(meta.pos < meta.end) \/ meta.end - meta.pos < 8
             THEN [meta EXCEPT !.pc = "return"]
             ELSE IF r.err = ErrEOF THEN [meta EXCEPT !.pc = "return"]
             ELSE IF r.err # Nil THEN [meta EXCEPT !.pc = "return", !.err = r.err]
             ELSE IF r.bh.size = 0 THEN [meta EXCEPT !.pc = "return"]
             ELSE IF r.bh.typ = TypMeta
             THEN [meta EXCEPT !.pc = "return", !.found = TRUE, !.result = r.bh]
             ELSE [meta EXCEPT !.pos = (meta.pos + r.bh.size) % PosMod]
    /\ UNCHANGED pipe

\* findBox after scanBoxes has returned
FindBoxReturn ==
    /\ meta.pc = "return"
    /\ meta' = [meta EXCEPT !.pc = "done",
                   !.err = IF meta.err = Nil /\ ~meta.found
                           THEN <<"box meta not found">> ELSE meta.err]
    /\ UNCHANGED pipe

NextScan == ScanStep \/ FindBoxReturn

SpecScan == InitScan /\ [][NextScan]_vars

\* C23: scanBoxes and findBox return after finitely many steps on every
\* input: the scan position strictly increases on each iteration, also for
\* boxes with a 64-bit size and for boxes declaring size 0.
C23_ScanPositionIncreases ==
    [][(meta.pc = "loop" /\ meta'.pc = "loop") => meta'.pos > meta.pos]_vars


(* -------------------------- heic: parseInfeForExif --------------------- *)
MaxInfe == 2

TypExif == <<69, 120, 105, 102>>      \* "Exif"
TypMime == <<109, 105, 109, 101>>     \* "mime"

\* the payloads of the infe boxes of the checked files: version and flags,
\* the item id (2 bytes in version 2, 4 bytes in version 3), the protection
\* index and the item type; versions 0 and 3 also with payloads that end
\* inside or before the item type
InfePayloads ==
    {<<2, 0, 0, 0, 0, 7, 0, 0>> \o TypExif,
     <<2, 0, 0, 0, 0, 8, 0, 0>> \o TypMime,
     <<3, 0, 0, 0, 0, 0, 0, 5, 0, 0>> \o TypExif,
     <<3, 0, 0, 0, 0, 0, 0, 6, 0, 0>> \o TypMime \o <<0, 0>>,
     <<3, 0, 0, 0, 0, 0, 0, 9, 0, 0>> \o SubSeq(TypExif, 1, 2),
     <<3, 0, 0, 0, 0, 0, 0, 9, 0, 0>> \o SubSeq(TypExif, 1, 3),
     <<3, 0, 0, 0, 0, 0, 0, 4>>,
     <<0, 0, 0, 0, 0, 3, 0, 0>> \o TypExif}

\* parseInfeForExif about to scan the children of iinf; scratch is
\* make([]byte, 16)
InitInfe ==
    /\ PipelineAtRest
    /\ meta \in [pc : {"scan"}, infe : SeqsUpTo(InfePayloads, MaxInfe),
                 i : {0}, scratch : {[k \in 1..16 |-> 0]}, ids : {<<>>},
                 took : {FALSE}]

\* the callback for the next infe box. buf is scratch[:min(dataSize, 16)]: it
\* shares the array of scratch, and a slice expression on buf may reach up to
\* the capacity 16, beyond len(buf)
InfeStep ==
    /\ meta.pc = "scan"
    /\ meta.i < Len(meta.infe)
    /\ LET payload == meta.infe[meta.i + 1]
           n == Min(Len(payload), 16)
           filled == [k \in 1..16 |-> IF k <= n THEN payload[k]
                                      ELSE meta.scratch[k]]
           infeVersion == filled[1]
           itemID == IF infeVersion = 2 THEN Uint16("MM", filled, 4)
                     ELSE Uint32("MM", filled, 4)
           itemType == IF infeVersion = 2 THEN SubSeq(filled, 9, 12)
                       ELSE SubSeq(filled, 11, 14)
       IN  IF Len(payload) < 12
           THEN meta' = [meta EXCEPT !.i = @ + 1, !.took = FALSE]
           ELSE IF infeVersion \in {2, 3} /\ itemType = TypExif
           THEN meta' = [meta EXCEPT !.i = @ + 1, !.scratch = filled,
                                     !.ids = Append(@, itemID), !.took = TRUE]
           ELSE meta' = [meta EXCEPT !.i = @ + 1, !.scratch = filled,
                                     !.took = FALSE]
    /\ UNCHANGED pipe

\* return ids, err
InfeReturn ==
    /\ meta.pc = "scan"
    /\ meta.i = Len(meta.infe)
    /\ meta' = [meta EXCEPT !.pc = "done"]
    /\ UNCHANGED pipe

NextInfe == InfeStep \/ InfeReturn

SpecInfe == InitInfe /\ [][NextInfe]_vars

\* the item type an infe payload holds, <<>> when the payload ends before the
\* end of its item-type field or has another version
OwnItemType(payload) ==
    IF payload[1] = 2 /\ Len(payload) >= 12 THEN SubSeq(payload, 9, 12)
    ELSE IF payload[1] = 3 /\ Len(payload) >= 14 THEN SubSeq(payload, 11, 14)
    ELSE <<>>

\* C30: parseInfeForExif decides each infe entry from the entry's own bytes:
\* an entry is collected only when the item type held by its own payload is
\* "Exif", and an entry whose payload is too short to contain its item-type
\* field is never collected.
C30_InfeOwnBytesOnly ==
    (meta.pc = "scan" /\ meta.i > 0 /\ meta.took) =>
        OwnItemType(meta.infe[meta.i]) = TypExif


(* ---------------------------- extract: extractJPEG --------------------- *)
\* the scan limit, 1 << 20 in the source, scaled down
maxScan == 16

MaxSegs == 2

exifHeader == TypExif \o <<0, 0>>

\* the pieces of the checked streams: a run of fill bytes 0xFF before a
\* marker, short and longer than the scan limit; APP0 segments with payloads
\* of 2 and of 12 bytes; an APP1 segment with an Exif payload; bytes that are
\* no marker; the markers RST0 and EOI
JpegPieces ==
    {<<255, 255, 255, 224, 0, 4, 0, 0>>,
     [i \in 1..(maxScan + 6) |-> 255] \o <<224, 0, 4, 0, 0>>,
     <<255, 224, 0, 4, 0, 0>>,
     <<255, 224, 0, 14, 0, 0, 0, 0, 0, 0, 0, 0, 0, 0, 0, 0>>,
     <<255, 225, 0, 10>> \o exifHeader \o <<77, 77>>,
     <<0, 0, 0>>,
     <<255, 208>>,
     <<255, 217>>}

\* extractJPEG called on a stream that starts with SOI
InitJpeg ==
    /\ PipelineAtRest
    /\ \E segs \in SeqsUpTo(JpegPieces, MaxSegs) :
         meta = [pc |-> "scan",
                 data |-> <<255, 216>> \o
                          Concat([i \in 1..Len(segs) |-> segs[i]], 1, Len(segs)),
                 off |-> 0, scanned |-> 0, marker |-> 0,
                 blob |-> <<>>, err |-> Nil, exif |-> FALSE]

\* return blob, err
Return(blob, err) ==
    [meta EXCEPT !.pc = "done", !.blob = blob, !.err = err]

\* for scanned < maxScan { b, err := br.ReadByte() ... if b != 0xFF continue
ScanByte ==
    /\ meta.pc = "scan"
    /\ meta' =
         IF ~(meta.scanned < maxScan) THEN Return(<<>>, Nil)
         ELSE IF meta.off >= Len(meta.data) THEN Return(<<>>, ErrEOF)
         ELSE [meta EXCEPT !.off = @ + 1, !.scanned = @ + 1,
                  !.pc = IF meta.data[meta.off + 1] = 255 THEN "padding"
                         ELSE "scan"]
    /\ UNCHANGED pipe

\* one iteration of the padding loop
Padding ==
    /\ meta.pc = "padding"
    /\ meta' =
         IF meta.off >= Len(meta.data) THEN Return(<<>>, ErrEOF)
         ELSE [meta EXCEPT !.off = @ + 1, !.scanned = @ + 1,
                  !.marker = meta.data[meta.off + 1],
                  !.pc = IF meta.data[meta.off + 1] = 255 THEN "padding"
                         ELSE "marker"]
    /\ UNCHANGED pipe

\* steps 3 to 7 of the loop body for the marker just read
HandleMarker ==
    /\ meta.pc = "marker"
    /\ LET sizeBuf == ReadFull(meta.data, meta.off, 2)
           length == Uint16("MM", sizeBuf.buf, 0) - 2
           off == meta.off + 2
           scanned == meta.scanned + 2
           sig == ReadFull(meta.data, off, 6)                  \* br.Peek(6)
           body == ReadFull(meta.data, off, length)
       IN  meta' =
             IF meta.marker = 216 \/ meta.marker = 1
                \/ (meta.marker >= 208 /\ meta.marker <= 215)
             THEN [meta EXCEPT !.pc = "scan"]
             ELSE IF meta.marker \in {217, 218} THEN Return(<<>>, Nil)
             ELSE IF sizeBuf.err # Nil
             THEN [Return(<<>>, sizeBuf.err) EXCEPT !.off = Len(meta.data)]
             ELSE IF meta.marker = 225 /\ length >= 6 /\ sig.err = Nil
                     /\ sig.buf = exifHeader
             THEN IF body.err # Nil
                  THEN [Return(<<>>, ErrUnexpectedEOF)
                           EXCEPT !.off = Len(meta.data), !.scanned = scanned,
                                  !.exif = TRUE]
                  ELSE [Return(SubSeq(body.buf, 7, length), Nil)
                           EXCEPT !.off = off + length, !.scanned = scanned,
                                  !.exif = TRUE]
             ELSE IF length > maxScan - scanned
             THEN [Return(<<>>, Nil) EXCEPT !.off = off, !.scanned = scanned]
             ELSE IF length > 0 /\ body.err # Nil
             THEN [Return(<<>>, ErrEOF)
                      EXCEPT !.off = Len(meta.data), !.scanned = scanned]
             ELSE [meta EXCEPT !.pc = "scan",
                      !.off = off + (IF length > 0 THEN length ELSE 0),
                      !.scanned = scanned + (IF length > 0 THEN length ELSE 0)]
    /\ UNCHANGED pipe

NextJpeg == ScanByte \/ Padding \/ HandleMarker

SpecJpeg == InitJpeg /\ [][NextJpeg]_vars

\* C24: as long as no APP1/Exif segment has been found, extractJPEG has
\* consumed at most the scan limit of input in total, beyond at most one
\* final marker header (marker and length, 4 bytes), and when the limit is
\* reached without an APP1/Exif segment it returns the nil blob and no error.
C24_JpegScanLimit ==
    ~meta.exif =>
        /\ meta.off <= maxScan + 4
        /\ (meta.pc = "done" /\ meta.off >= maxScan) =>
               (meta.blob = <<>> /\ meta.err = Nil)


(* ----------------------- extract: ExtractEXIF, extractPNG -------------- *)
\* the largest eXIf chunk accepted, 10*1024*1024 in the source, scaled down
MaxExifLen == 8

MaxChunks == 2

PngSignature == <<137, 80, 78, 71, 13, 10, 26, 10>>
TypEXIf == <<101, 88, 73, 102>>       \* "eXIf"
TypIEND == <<73, 69, 78, 68>>         \* "IEND"
TypIDAT == <<73, 68, 65, 84>>         \* "IDAT"

\* bytes.HasPrefix
BytesHavePrefix(b, p) == Len(b) >= Len(p) /\ SubSeq(b, 1, Len(p)) = p

\* isHEIC
isHEIC(sig) ==
    /\ SubSeq(sig, 5, 8) = TypFtyp
    /\ SubSeq(sig, 9, 12) \in {<<104, 101, 105, 99>>, <<104, 101, 105, 120>>,
                               <<109, 105, 102, 49>>, <<109, 115, 102, 49>>}

\* the pieces of the checked streams behind the signature: complete chunks,
\* a chunk whose payload is cut off, an eXIf chunk with a TIFF payload, one
\* that declares more than the accepted length, one that is cut off, the end
\* chunk, and a header that is cut off
PngPieces ==
    {<<0, 0, 0, 2>> \o TypIDAT \o <<0, 0>> \o <<0, 0, 0, 0>>,
     <<0, 0, 0, 4>> \o TypIDAT \o <<0>>,
     <<0, 0, 0, 2>> \o TypEXIf \o <<73, 73>> \o <<0, 0, 0, 0>>,
     <<0, 0, 0, MaxExifLen + 1>> \o TypEXIf \o <<73, 73>>,
     <<0, 0, 0, 4>> \o TypEXIf \o <<77, 77>>,
     <<0, 0, 0, 0>> \o TypIEND \o <<0, 0, 0, 0>>,
     <<0, 0, 0>>}

\* the heads of the checked streams: the PNG signature, a signature of no
\* known container ("GIF89a"), and a stream shorter than the 12 bytes sniffed
StreamHeads == {PngSignature, <<71, 73, 70, 56, 57, 97, 0, 0, 0, 0, 0, 0>>,
                <<137, 80, 78, 71>>}

\* ExtractEXIF called on a stream
InitExtract ==
    /\ PipelineAtRest
    /\ \E head \in StreamHeads, chunks \in SeqsUpTo(PngPieces, MaxChunks) :
         meta = [pc |-> "sniff",
                 data |-> head \o Concat([i \in 1..Len(chunks) |-> chunks[i]],
                                         1, Len(chunks)),
                 off |-> 0, blob |-> <<>>, err |-> Nil]

\* ExtractEXIF up to the call of the extractor of the container;
\* extractPNG starts behind the 8 bytes of the signature
Sniff ==
    /\ meta.pc = "sniff"
    /\ LET sniff == ReadFull(meta.data, 0, 12)
       IN  meta' =
             IF sniff.err # Nil THEN Return(<<>>, sniff.err)
             ELSE IF BytesHavePrefix(sniff.buf, <<255, 216>>)
             THEN [meta EXCEPT !.pc = "extractJPEG"]
             ELSE IF isHEIC(sniff.buf)
             THEN [meta EXCEPT !.pc = "ExtractExifFromHEIC"]
             ELSE IF BytesHavePrefix(sniff.buf, SubSeq(PngSignature, 1, 4))
             THEN [meta EXCEPT !.pc = "extractPNG", !.off = 8]
             ELSE Return(<<>>, ErrUnsupported)
    /\ UNCHANGED pipe

\* one iteration of the loop of extractPNG
PngChunk ==
    /\ meta.pc = "extractPNG"
    /\ LET header == ReadFull(meta.data, meta.off, 8)
           length == Uint32("MM", header.buf, 0)
           chunkType == SubSeq(header.buf, 5, 8)
           body == meta.off + 8
           data == IF length = 0 THEN [err |-> Nil, buf |-> <<>>]
                   ELSE ReadFull(meta.data, body, length)
       IN  meta' =
             IF header.err = ErrEOF THEN Return(<<>>, Nil)
             ELSE IF header.err # Nil THEN Return(<<>>, header.err)
             ELSE IF chunkType = TypEXIf
             THEN IF length > MaxExifLen
                  THEN Return(<<>>, <<"exif data too large">>)
                  ELSE IF data.err # Nil THEN Return(<<>>, data.err)
                  ELSE Return(data.buf, Nil)
             ELSE IF chunkType = TypIEND THEN Return(<<>>, Nil)
             ELSE IF body + length + 4 > Len(meta.data)
             THEN Return(<<>>, ErrEOF)
             ELSE [meta EXCEPT !.off = body + length + 4]
    /\ UNCHANGED pipe

NextExtract == Sniff \/ PngChunk

SpecExtract == InitExtract /\ [][NextExtract]_vars

\* C21: every structural validation failure of the native extraction is
\* reported as Unsupported: an error returned for an unknown signature, a
\* truncated stream or an eXIf chunk above the accepted length is, or wraps,
\* ErrUnsupported; no malformed input yields an untyped error.
C21_StructuralFailuresUnsupported ==
    (meta.pc = "done" /\ meta.err # Nil) =>
        errorsIs(meta.err, ErrUnsupported)

====
